---------------------------- MODULE Spec2Model ----------------------------
(***************************************************************************)
(* A model of the SIM868 driver (src/sim868.h): the command transceiver,   *)
(* the reply parser and the session flows built on them.  The driver is a  *)
(* single synchronous thread; the modem is the environment, which answers  *)
(* every command with a line chosen nondeterministically.                  *)
(*                                                                         *)
(* A line, and every C string of the driver, is a sequence of one-         *)
(* character strings.                                                      *)
(***************************************************************************)
EXTENDS Integers, Sequences, FiniteSets, TLC

VARIABLES
  pc,                  \* position of the driver's single thread of control
  log,                 \* calls, returns and UART exchanges of the current API call
  ret,                 \* value returned by the last finished API call
  loc,                 \* locals and parameters of the active functions
  g_sim_buffer,        \* static char g_sim_buffer[]: the last reply, as a C string
  g_http_buffer,       \* static char g_http_buffer[]
  g_http_status_code,  \* static uint16_t g_http_status_code
  json_structure,      \* strlen(gs_http_header.json_structure)
  g_gnss_buffer,       \* static char g_gnss_buffer[]: the bytes of the last sentence
  gs_gnss_data_time,   \* struct GNSS_Data_Time gs_gnss_data_time
  g_gnss_is_data_fixed, \* static uint8_t g_gnss_is_data_fixed
  sim_rx               \* the bytes pending in the receive buffer of the SIM868 UART

vars == <<pc, log, ret, loc, g_sim_buffer, g_http_buffer, g_http_status_code,
          json_structure, g_gnss_buffer, gs_gnss_data_time,
          g_gnss_is_data_fixed, sim_rx>>

GnssGlobals == <<g_gnss_buffer, gs_gnss_data_time, g_gnss_is_data_fixed>>

---------------------------------------------------------------------------
(* Error kinds, connection states, registration statuses, HTTP codes.      *)

NO_ERROR == 0
ERROR_AUTOBAUD_MODE == 1
ERROR_SIMCARD_STATUS == 2
ERROR_SIMCARD_PIN == 3
ERROR_NETWORK_RSSI == 4
ERROR_NETWORK_REGISTRATION == 5
ERROR_GPRS_SERVICE == 6
ERROR_GPRS_CONTEXT == 7
ERROR_REPLY == 8
ERROR_HTTP_SERVICE == 9
ERROR_HTTP_REQUEST == 10
ERROR_HTTP_STATUS_CODE == 11
ERROR_JSON_STRUCTURE == 12
ERROR_POWER_STATE == 14

CONNECTING == 0
CONNECTED == 1
CLOSING == 2
CLOSED == 3

OFF == 0
ON == 1
RESET == 2

GET == 0
POST == 1

OK == 200
CREATED == 201
NOT_FOUND == 404

NOT_REGISTERED == 0
REGISTERED_HOME_NET == 1
SEARCHING == 2
REGISTRATION_DENIED == 3
REGISTRED_NO_HOME_NET == 5

Uint8 == 256
Uint16 == 65536

\* struct GNSS_Data_Time, in static storage: all fields zero at start
GNSS_Data_Time0 ==
  [seconds |-> 0, minutes |-> 0, hour |-> 0, day |-> 0, month |-> 0, year |-> 0]

---------------------------------------------------------------------------
(* C strings.                                                              *)

Digits == <<"0", "1", "2", "3", "4", "5", "6", "7", "8", "9">>

IsDigit(c) == \E i \in 1..10 : Digits[i] = c

DigitVal(c) == (CHOOSE i \in 1..10 : Digits[i] = c) - 1

RECURSIVE Dec(_)
\* printf("%u"): the decimal digits of n
Dec(n) == IF n < 10 THEN <<Digits[n + 1]>>
          ELSE Dec(n \div 10) \o <<Digits[(n % 10) + 1]>>

\* the suffix of s that starts at index i (a char *p into s)
From(s, i) == SubSeq(s, i, Len(s))

\* strstr: index of the first occurrence of t in s, 0 when there is none
strstr(s, t) ==
  LET hits == {i \in 1..(Len(s) - Len(t) + 1) : SubSeq(s, i, i + Len(t) - 1) = t}
  IN  IF Len(t) = 0 THEN 1
      ELSE IF hits = {} THEN 0
      ELSE CHOOSE i \in hits : \A j \in hits : i <= j

\* strchr: index of the first c in s, 0 when there is none
strchr(s, c) ==
  LET hits == {i \in 1..Len(s) : s[i] = c}
  IN  IF hits = {} THEN 0 ELSE CHOOSE i \in hits : \A j \in hits : i <= j

RECURSIVE AtoiDigits(_, _)
AtoiDigits(s, acc) ==
  IF Len(s) = 0 \/ ~IsDigit(s[1]) THEN acc
  ELSE AtoiDigits(Tail(s), 10 * acc + DigitVal(s[1]))

RECURSIVE SkipSpace(_)
SkipSpace(s) == IF Len(s) > 0 /\ s[1] = " " THEN SkipSpace(Tail(s)) ELSE s

\* atoi: leading blanks, an optional sign, then digits up to the first non-digit
atoi(s) ==
  LET t == SkipSpace(s)
  IN  IF Len(t) > 0 /\ t[1] = "-" THEN 0 - AtoiDigits(Tail(t), 0)
      ELSE IF Len(t) > 0 /\ t[1] = "+" THEN AtoiDigits(Tail(t), 0)
      ELSE AtoiDigits(t, 0)

RECURSIVE SkipChar(_, _)
\* number of leading characters of s equal to c
SkipChar(s, c) == IF Len(s) > 0 /\ s[1] = c THEN 1 + SkipChar(Tail(s), c) ELSE 0

\* strtok(p, ","), first call: skips leading commas, ends the token at the next
\* comma and overwrites that comma with a null.  found = FALSE is the NULL result.
\* first/last are indexes into p; cut is the index of the overwritten comma, or 0.
strtok(p) ==
  LET skip  == SkipChar(p, ",")
      rest  == From(p, skip + 1)
      comma == strchr(rest, ",")
  IN  IF Len(rest) = 0
      THEN [found |-> FALSE, tok |-> <<>>, cut |-> 0]
      ELSE IF comma = 0
      THEN [found |-> TRUE, tok |-> rest, cut |-> 0]
      ELSE [found |-> TRUE, tok |-> SubSeq(rest, 1, comma - 1), cut |-> skip + comma]

RECURSIVE SkipDividers(_, _, _, _)
\* the loop of parse_reply: i dividers are still to be skipped from index p of s;
\* the index after the last one, 0 when the dividers run out
SkipDividers(s, p, divider, i) ==
  IF i = 0 THEN p
  ELSE LET d == strchr(From(s, p), divider)
       IN  IF d = 0 THEN 0 ELSE SkipDividers(s, p + d, divider, i - 1)

\* parse_reply(reply, &v, divider, index) on the buffer buf with *v = old:
\* err is the return value, v the new *v, buf the buffer as a C string afterwards
\* (strtok cuts it), ub is set when atoi is handed strtok's NULL.
parse_reply(buf, reply, old, divider, index) ==
  LET t == strstr(buf, reply)
      p == IF t = 0 THEN 0 ELSE SkipDividers(buf, t + Len(reply), divider, index)
      s == From(buf, p)
      k == strtok(s)
  IN  IF t = 0 \/ p = 0
      THEN [err |-> ERROR_REPLY, v |-> old, buf |-> buf, ub |-> FALSE]
      ELSE IF Len(s) > 1
      THEN IF ~k.found
           THEN [err |-> NO_ERROR, v |-> old, buf |-> buf, ub |-> TRUE]
           ELSE [err |-> NO_ERROR, v |-> atoi(k.tok) % Uint16,
                 buf |-> IF k.cut = 0 THEN buf ELSE SubSeq(buf, 1, p + k.cut - 2),
                 ub |-> FALSE]
      ELSE [err |-> NO_ERROR, v |-> atoi(s) % Uint16, buf |-> buf, ub |-> FALSE]

\* send_check_reply: TRUE (non-zero) when the line read differs from the expected one
send_check_reply(line, reply) == ~(line = reply)


---------------------------------------------------------------------------
(* Lines the modem may answer with.                                        *)

L_OK == <<"O", "K">>
L_ERROR == <<"E", "R", "R", "O", "R">>
L_DOWNLOAD == <<"D", "O", "W", "N", "L", "O", "A", "D">>
L_NONE == <<>>          \* read_line timed out with nothing captured

T_CGATT == <<"+", "C", "G", "A", "T", "T", ":", " ">>
T_SAPBR == <<"+", "S", "A", "P", "B", "R", ":", " ">>
T_CREG == <<"+", "C", "R", "E", "G", ":", " ">>
T_HTTPACTION == <<"+", "H", "T", "T", "P", "A", "C", "T", "I", "O", "N", ":", " ">>
T_HTTPREAD == <<"+", "H", "T", "T", "P", "R", "E", "A", "D", ":", " ">>

IpAddr == <<"\"", "0", ".", "0", ".", "0", ".", "0", "\"">>

\* answers to a command whose reply is compared with a fixed string
CheckLines == {L_OK, L_ERROR, L_NONE}

\* answers to AT+CGATT?: "+CGATT: <state>"
CgattLines == {T_CGATT \o Dec(s) : s \in {0, 1}} \cup {L_ERROR}

\* bearer status values the modem may report, one of them wider than 8 bits
BearerStatuses == {CONNECTING, CONNECTED, CLOSING, CLOSED, Uint8 + CLOSED}

\* answers to AT+SAPBR=2,1: "+SAPBR: <cid>,<status>,<ip>"
SapbrLine(s) == T_SAPBR \o <<"1", ",">> \o Dec(s) \o <<",">> \o IpAddr

SapbrLines == {SapbrLine(s) : s \in BearerStatuses} \cup {L_ERROR}

\* registration statuses the modem may report; 4 is "unknown"
RegStatuses == {NOT_REGISTERED, REGISTERED_HOME_NET, SEARCHING,
                REGISTRATION_DENIED, 4, REGISTRED_NO_HOME_NET}

\* answers to AT+CREG?: "+CREG: <n>,<stat>"
CregLine(s) == T_CREG \o <<"0", ",">> \o Dec(s)

CregLines == {CregLine(s) : s \in RegStatuses} \cup {L_ERROR}

\* answers to a command of the HTTP session whose reply is compared with OK
HttpCheckLines == {L_OK, L_ERROR}

\* HTTP status codes the modem may report
HttpStatuses == {OK, CREATED, NOT_FOUND}

\* the status line after AT+HTTPACTION: "+HTTPACTION: <method>,<status>,<length>"
ActionLine(method, s) ==
  T_HTTPACTION \o Dec(method) \o <<",">> \o Dec(s) \o <<",", "1", "5">>

\* answers to AT+HTTPREAD: "+HTTPREAD: <length>"
HttpReadLines == {T_HTTPREAD \o <<"1", "5">>, L_ERROR}

\* a line of the response body
BodyLines == {<<"{", "}">>}

\* byte lengths of the JSON payload the caller may set
JsonLengths == {10, 200}

\* values an uninitialized uint16_t status and uint8_t error_status may hold
IndeterminateStatus == {NOT_REGISTERED, REGISTERED_HOME_NET, SEARCHING, 4}
IndeterminateError == {NO_ERROR, ERROR_REPLY, Uint8 - 1}

---------------------------------------------------------------------------
(* The trace of an API call: every function entry, return and exchange.    *)

Call(f) == [k |-> "call", at |-> f, n |-> 0, r |-> <<>>]
Ret(f, e) == [k |-> "ret", at |-> f, n |-> e, r |-> <<>>]
\* get_reply: the command at (numeric argument n) was written, line was read
Cmd(at, n, line) == [k |-> "cmd", at |-> at, n |-> n, r |-> line]
\* delay_seconds(n)
Delay(n) == [k |-> "delay", at |-> "delay_seconds", n |-> n, r |-> <<>>]
\* the same exchange in the trace of the HTTP session, which keeps the commands
\* only: the answer is in g_sim_buffer when the step ends
Tx(at, n) == [k |-> "cmd", at |-> at, n |-> n, r |-> <<>>]
\* read_line called on its own: no command written; the line is in g_sim_buffer
Rx == [k |-> "read", at |-> "read_line", n |-> 0, r |-> <<>>]

Idle == pc = "idle"

Loc0 == [state |-> FALSE, module_state |-> 0, bearer_state |-> 0,
         error_status |-> 0, status |-> 0, seconds |-> 0, minutes |-> 0,
         method |-> 0, max_attempts |-> 0, attempts |-> 0, start_status |-> 0,
         time_out |-> 0, level |-> 0, curr_state |-> 0, lines |-> 0,
         time |-> <<>>, one_more_day |-> FALSE, save |-> 0, date |-> <<>>,
         before |-> GNSS_Data_Time0, reply_idx |-> 0, delays |-> 0,
         at |-> <<>>, gnrmcR |-> FALSE, gnrmcM |-> FALSE, gnrmcC |-> FALSE,
         cnt |-> 0, gnss_idx |-> 0]

\* the API call returns e to its caller
Return(e) == pc' = "done" /\ ret' = e

\* an API call begins: nothing has been returned yet
Enter(f) == Idle /\ log' = <<Call(f)>> /\ ret' = NO_ERROR

TypeOK ==
  /\ pc \in STRING
  /\ ret \in 0..(Uint8 - 1)
  /\ g_http_status_code \in 0..(Uint16 - 1)

---------------------------------------------------------------------------
(* SIM868_gprs_enable                                                      *)

AT_SAPBR_CONTYPE == "AT+SAPBR=3,1,\"CONTYPE\",\"GPRS\""
AT_SAPBR_APN == "AT+SAPBR=3,1,\"APN\",\"%s\""
AT_SAPBR_USER == "AT+SAPBR=3,1,\"USER\",\"%s\""
AT_SAPBR_PWD == "AT+SAPBR=3,1,\"PWD\",\"%s\""

\* gprs_query: the reported bearer status, or ERROR_REPLY when the reply of
\* AT+SAPBR=2,1 cannot be parsed
gprs_query(line) ==
  LET pr == parse_reply(line, T_SAPBR, 0, ",", 1)
  IN  IF pr.err # NO_ERROR THEN ERROR_REPLY ELSE pr.v

\* a slip of line 716: the open sequence runs whenever connection is wanted
ShouldOpen_always(state, bearer_state) == state

\* line 716: the bearer is closed and should be opened
ShouldOpen(state, bearer_state) == state /\ bearer_state = CLOSED

\* line 774: the bearer is connected and should be closed
ShouldClose(state, bearer_state) == ~state /\ bearer_state = CONNECTED

\* a slip of line 796: the module is detached whenever it is attached
ShouldDetach_attached(state, module_state) == module_state # 0

\* line 796: the device is attached and should not be
ShouldDetach(state, module_state) == ~state /\ module_state # 0

SIM868_gprs_enable_call ==
  /\ Enter("SIM868_gprs_enable")
  /\ \E state \in BOOLEAN :
       loc' = [Loc0 EXCEPT !.state = state]
  /\ pc' = "ge_cgatt"
  /\ UNCHANGED <<g_sim_buffer, g_http_buffer, g_http_status_code, json_structure,
               GnssGlobals, sim_rx>>

\* lines 691-705: query the attach status
gprs_enable_cgatt ==
  /\ pc = "ge_cgatt"
  /\ \E line \in CgattLines :
       LET pr == parse_reply(line, T_CGATT, loc.module_state, ",", 0) IN
       /\ log' = Append(log, Cmd("AT+CGATT?", 0, line))
       /\ g_sim_buffer' = pr.buf
       /\ loc' = [loc EXCEPT !.module_state = pr.v]
       /\ IF pr.err # NO_ERROR
          THEN Return(ERROR_REPLY)
          ELSE /\ pc' = IF loc.state /\ pr.v = 0 THEN "ge_attach" ELSE "ge_query"
               /\ UNCHANGED ret
  /\ UNCHANGED <<g_http_buffer, g_http_status_code, json_structure, GnssGlobals, sim_rx>>

\* a step of gprs_enable that sends at and requires the reply OK:
\* on a mismatch the call returns err, otherwise it goes on at next
gprs_enable_check(here, at, err, next) ==
  /\ pc = here
  /\ \E line \in CheckLines :
       /\ log' = Append(log, Cmd(at, 0, line))
       /\ g_sim_buffer' = line
       /\ IF send_check_reply(line, L_OK)
          THEN Return(err)
          ELSE pc' = next /\ UNCHANGED ret
  /\ UNCHANGED <<loc, g_http_buffer, g_http_status_code, json_structure,
               GnssGlobals, sim_rx>>

\* lines 701-704
gprs_enable_attach ==
  gprs_enable_check("ge_attach", "AT+CGATT=1", ERROR_GPRS_SERVICE, "ge_query")

\* lines 710-716, 774: the current bearer status, kept in a uint8_t
gprs_enable_query ==
  /\ pc = "ge_query"
  /\ \E line \in SapbrLines :
       LET bearer_state == gprs_query(line) % Uint8 IN
       /\ log' = Append(log, Cmd("AT+SAPBR=2,1", 0, line))
       /\ g_sim_buffer' = parse_reply(line, T_SAPBR, 0, ",", 1).buf
       /\ loc' = [loc EXCEPT !.bearer_state = bearer_state]
       /\ pc' = IF ShouldOpen(loc.state, bearer_state) THEN "ge_contype"
                ELSE IF ShouldClose(loc.state, bearer_state) THEN "ge_close"
                ELSE "ge_detach"
  /\ UNCHANGED <<ret, g_http_buffer, g_http_status_code, json_structure,
               GnssGlobals, sim_rx>>

\* lines 721-724
gprs_enable_contype ==
  gprs_enable_check("ge_contype", AT_SAPBR_CONTYPE, ERROR_REPLY, "ge_apn")

\* lines 726-735
gprs_enable_apn ==
  gprs_enable_check("ge_apn", AT_SAPBR_APN, ERROR_REPLY, "ge_user")

\* lines 737-746
gprs_enable_user ==
  gprs_enable_check("ge_user", AT_SAPBR_USER, ERROR_REPLY, "ge_pwd")

\* a slip of lines 754-757: the reply to the PWD command is not checked
gprs_enable_pwd_unchecked ==
  /\ pc = "ge_pwd"
  /\ \E line \in CheckLines :
       /\ log' = Append(log, Cmd(AT_SAPBR_PWD, 0, line))
       /\ g_sim_buffer' = line
  /\ pc' = "ge_open"
  /\ UNCHANGED <<ret, loc, g_http_buffer, g_http_status_code, json_structure,
               GnssGlobals, sim_rx>>

\* lines 748-757.  gs_bearer_config.pwd is a char (line 277) that line 749 hands
\* to sprintf for %s: the text of the command is whatever is read through that
\* value as an address (not modelled), or the read faults
gprs_enable_pwd ==
  \/ gprs_enable_check("ge_pwd", AT_SAPBR_PWD, ERROR_REPLY, "ge_open")
  \/ /\ pc = "ge_pwd"
     /\ pc' = "fault"
     /\ UNCHANGED <<log, ret, loc, g_sim_buffer, g_http_buffer,
                    g_http_status_code, json_structure, GnssGlobals, sim_rx>>

\* lines 762-765
gprs_enable_open ==
  gprs_enable_check("ge_open", "AT+SAPBR=1,1", ERROR_GPRS_CONTEXT, "ge_opened")

\* lines 767-772: confirm the bearer is connected
gprs_enable_opened ==
  /\ pc = "ge_opened"
  /\ \E line \in SapbrLines :
       /\ log' = Append(log, Cmd("AT+SAPBR=2,1", 0, line))
       /\ g_sim_buffer' = parse_reply(line, T_SAPBR, 0, ",", 1).buf
       /\ IF gprs_query(line) # CONNECTED
          THEN Return(ERROR_GPRS_CONTEXT)
          ELSE pc' = "ge_detach" /\ UNCHANGED ret
  /\ UNCHANGED <<loc, g_http_buffer, g_http_status_code, json_structure,
               GnssGlobals, sim_rx>>

\* lines 779-782
gprs_enable_close ==
  gprs_enable_check("ge_close", "AT+SAPBR=0,1", ERROR_GPRS_CONTEXT, "ge_closed")

\* lines 784-789: check the bearer is closed
gprs_enable_closed ==
  /\ pc = "ge_closed"
  /\ \E line \in SapbrLines :
       /\ log' = Append(log, Cmd("AT+SAPBR=2,1", 0, line))
       /\ g_sim_buffer' = parse_reply(line, T_SAPBR, 0, ",", 1).buf
       /\ loc' = [loc EXCEPT !.error_status =
                    IF gprs_query(line) # CLOSED THEN ERROR_GPRS_CONTEXT ELSE @]
       /\ pc' = "ge_detach"
  /\ UNCHANGED <<ret, g_http_buffer, g_http_status_code, json_structure,
               GnssGlobals, sim_rx>>

\* lines 796-806: detach when attached and not wanted, then return NO_ERROR
gprs_enable_detach ==
  /\ pc = "ge_detach"
  /\ IF ShouldDetach(loc.state, loc.module_state)
     THEN \E line \in CheckLines :
            /\ log' = Append(log, Cmd("AT+CGATT=0", 0, line))
            /\ g_sim_buffer' = line
            /\ IF send_check_reply(line, L_OK)
               THEN Return(ERROR_GPRS_SERVICE)
               ELSE Return(NO_ERROR)
     ELSE /\ Return(NO_ERROR)
          /\ UNCHANGED <<log, g_sim_buffer>>
  /\ UNCHANGED <<loc, g_http_buffer, g_http_status_code, json_structure,
               GnssGlobals, sim_rx>>

\* the caller has taken the returned value and is free to make the next call;
\* the driver's globals keep what the call left in them
caller_continues ==
  /\ pc = "done"
  /\ pc' = "idle"
  /\ log' = <<>>
  /\ ret' = NO_ERROR
  /\ loc' = Loc0
  /\ UNCHANGED <<g_sim_buffer, g_http_buffer, g_http_status_code, json_structure,
               GnssGlobals, sim_rx>>

InitCommon ==
  /\ pc = "idle"
  /\ log = <<>>
  /\ ret = NO_ERROR
  /\ loc = Loc0
  /\ g_sim_buffer = <<>>
  /\ g_http_buffer = <<>>
  /\ g_http_status_code = 0
  /\ g_gnss_buffer = <<>>
  /\ gs_gnss_data_time = GNSS_Data_Time0
  /\ g_gnss_is_data_fixed = 0
  /\ sim_rx = <<>>

InitGprs == InitCommon /\ json_structure = 0

NextGprs ==
  \/ SIM868_gprs_enable_call
  \/ gprs_enable_cgatt
  \/ gprs_enable_attach
  \/ gprs_enable_query
  \/ gprs_enable_contype
  \/ gprs_enable_apn
  \/ gprs_enable_user
  \/ gprs_enable_pwd
  \/ gprs_enable_open
  \/ gprs_enable_opened
  \/ gprs_enable_close
  \/ gprs_enable_closed
  \/ gprs_enable_detach
  \/ caller_continues

SpecGprs == InitGprs /\ [][NextGprs]_vars


---------------------------------------------------------------------------
(* Claims about SIM868_gprs_enable, checked under SpecGprs.                *)

InCall(f) == Len(log) > 0 /\ log[1] = Call(f)
Done(f) == pc = "done" /\ InCall(f)

\* the positions of the exchanges of command at in the trace
Sent(at) == {i \in DOMAIN log : log[i].k = "cmd" /\ log[i].at = at}

First(S) == CHOOSE i \in S : \A j \in S : i <= j
Last(S) == CHOOSE i \in S : \A j \in S : j <= i

ConfigCmds == {AT_SAPBR_CONTYPE, AT_SAPBR_APN, AT_SAPBR_USER, AT_SAPBR_PWD}
OpenCmds == ConfigCmds \cup {"AT+SAPBR=1,1"}

\* the first bearer query of the call (line 710) was answered with status s
BearerReported(s) ==
  /\ Sent("AT+SAPBR=2,1") # {}
  /\ log[First(Sent("AT+SAPBR=2,1"))].r = SapbrLine(s)

\* C1: bearer idempotence.  In a call SIM868_gprs_enable(true) whose bearer query
\* reports CONNECTED no command of the open sequence is ever sent, and in a call
\* SIM868_gprs_enable(false) whose bearer query reports CLOSED the close command
\* AT+SAPBR=0,1 is never sent.
C1_BearerIdempotence ==
  InCall("SIM868_gprs_enable") =>
    /\ (loc.state /\ BearerReported(CONNECTED)) =>
         \A at \in OpenCmds : Sent(at) = {}
    /\ (~loc.state /\ BearerReported(CLOSED)) => Sent("AT+SAPBR=0,1") = {}

\* a finished SIM868_gprs_enable(true) that found the bearer CONNECTED
C1_Witness ==
  /\ Done("SIM868_gprs_enable")
  /\ loc.state
  /\ BearerReported(CONNECTED)
  /\ ret = NO_ERROR

\* C7: SIM868_gprs_enable(true) returns NO_ERROR only if the last bearer query of
\* the call reported CONNECTED.
C7_NoErrorOnlyConnected ==
  (Done("SIM868_gprs_enable") /\ loc.state /\ ret = NO_ERROR) =>
    /\ Sent("AT+SAPBR=2,1") # {}
    /\ log[Last(Sent("AT+SAPBR=2,1"))].r = SapbrLine(CONNECTED)

\* the close command was answered OK and the re-query after it did not report CLOSED
CloseNotConfirmed ==
  /\ Sent("AT+SAPBR=0,1") # {}
  /\ log[First(Sent("AT+SAPBR=0,1"))].r = L_OK
  /\ \E i \in Sent("AT+SAPBR=2,1") :
       /\ i > First(Sent("AT+SAPBR=0,1"))
       /\ log[i].r # SapbrLine(CLOSED)

\* C8: in SIM868_gprs_enable(false) with the bearer CONNECTED, a close answered OK
\* whose re-query does not report CLOSED makes the call return ERROR_GPRS_CONTEXT.
C8_CloseUnconfirmedIsContextError ==
  (Done("SIM868_gprs_enable") /\ ~loc.state /\ BearerReported(CONNECTED)
     /\ CloseNotConfirmed)
    => ret = ERROR_GPRS_CONTEXT

\* one of the four bearer configuration commands was not answered with exactly OK
ConfigRefused == \E at \in ConfigCmds : \E i \in Sent(at) : log[i].r # L_OK

\* C9 as stated: in SIM868_gprs_enable(true) with the bearer CLOSED, a configuration
\* command that is not answered with exactly OK makes the call return
\* ERROR_GPRS_CONTEXT.
C9_ConfigFailureIsContextError ==
  (Done("SIM868_gprs_enable") /\ loc.state /\ BearerReported(CLOSED)
     /\ ConfigRefused)
    => ret = ERROR_GPRS_CONTEXT

\* C9 as amended: in SIM868_gprs_enable(true) with the bearer CLOSED, a
\* configuration command that is not answered with exactly OK makes the call
\* return ERROR_REPLY.
C9_ConfigFailureIsReplyError ==
  (Done("SIM868_gprs_enable") /\ loc.state /\ BearerReported(CLOSED)
     /\ ConfigRefused)
    => ret = ERROR_REPLY

\* the call ended at the PWD command, the last of the four, which was refused
C9_Witness ==
  /\ Done("SIM868_gprs_enable")
  /\ loc.state
  /\ BearerReported(CLOSED)
  /\ Sent(AT_SAPBR_PWD) # {}
  /\ log[First(Sent(AT_SAPBR_PWD))].r = L_ERROR
  /\ ret = ERROR_REPLY


---------------------------------------------------------------------------
(* gsm_network_registration                                                *)

ROUNDS == 2
ROUND_SECONDS == 30
POLL_SECONDS == 15

\* the switch of lines 1802-1824: error_status after a poll that left status
RegistrationSwitch(status, error_status) ==
  CASE status = NOT_REGISTERED -> ERROR_NETWORK_REGISTRATION
    [] status = REGISTERED_HOME_NET -> NO_ERROR
    [] status = REGISTRED_NO_HOME_NET -> NO_ERROR
    [] status = SEARCHING -> error_status
    [] status = REGISTRATION_DENIED -> error_status
    [] OTHER -> ERROR_REPLY

\* a slip of lines 1806-1811: the break of the registered statuses leaves the
\* loops as well
RegistrationNext_leaves(status, seconds, minutes) ==
  IF status \in {REGISTERED_HOME_NET, REGISTRED_NO_HOME_NET}
  THEN [pc |-> "done", seconds |-> seconds, minutes |-> minutes]
  ELSE IF seconds - POLL_SECONDS > 0
  THEN [pc |-> "reg_poll", seconds |-> seconds - POLL_SECONDS, minutes |-> minutes]
  ELSE IF minutes + 1 < ROUNDS
  THEN [pc |-> "reg_poll", seconds |-> ROUND_SECONDS, minutes |-> minutes + 1]
  ELSE [pc |-> "done", seconds |-> seconds - POLL_SECONDS, minutes |-> minutes + 1]

\* lines 1787-1791, 1827-1829: the position after a poll.  The break statements of
\* the switch leave the switch only, so nothing but the two counters ends the loops.
RegistrationNext(status, seconds, minutes) ==
  IF seconds - POLL_SECONDS > 0
  THEN [pc |-> "reg_poll", seconds |-> seconds - POLL_SECONDS, minutes |-> minutes]
  ELSE IF minutes + 1 < ROUNDS
  THEN [pc |-> "reg_poll", seconds |-> ROUND_SECONDS, minutes |-> minutes + 1]
  ELSE [pc |-> "done", seconds |-> seconds - POLL_SECONDS, minutes |-> minutes + 1]

\* entry: status and error_status are not initialized; the first round begins
gsm_network_registration_call ==
  /\ Enter("gsm_network_registration")
  /\ \E status \in IndeterminateStatus, error_status \in IndeterminateError :
       loc' = [Loc0 EXCEPT !.status = status, !.error_status = error_status,
                           !.minutes = 0, !.seconds = ROUND_SECONDS]
  /\ pc' = "reg_poll"
  /\ UNCHANGED <<g_sim_buffer, g_http_buffer, g_http_status_code, json_structure,
               GnssGlobals, sim_rx>>

\* lines 1796-1828: one poll, the switch on its status, the delay, and the loop
\* tests that follow; line 1831 when both loops have ended
gsm_network_registration_poll ==
  /\ pc = "reg_poll"
  /\ \E line \in CregLines :
       LET pr == parse_reply(line, T_CREG, loc.status, ",", 1)
           error_status == RegistrationSwitch(pr.v, loc.error_status)
           next == RegistrationNext(pr.v, loc.seconds, loc.minutes)
       IN  /\ log' = log \o <<Cmd("AT+CREG?", 0, line), Delay(POLL_SECONDS)>>
           /\ g_sim_buffer' = pr.buf
           /\ loc' = [loc EXCEPT !.status = pr.v, !.error_status = error_status,
                                 !.seconds = next.seconds, !.minutes = next.minutes]
           /\ pc' = next.pc
           /\ ret' = IF next.pc = "done" THEN error_status ELSE ret
  /\ UNCHANGED <<g_http_buffer, g_http_status_code, json_structure, GnssGlobals, sim_rx>>

InitReg == InitCommon /\ json_structure = 0

NextReg ==
  \/ gsm_network_registration_call
  \/ gsm_network_registration_poll
  \/ caller_continues

SpecReg == InitReg /\ [][NextReg]_vars

\* the driver's thread never stalls inside the loops: a poll whose answer is one
\* of CregLines is read to its line feed or to the read timeout, and
\* delay_seconds(15) ends, so the next step is taken.  Nothing obliges the caller
\* to call again.
SpecRegLive == SpecReg /\ WF_vars(gsm_network_registration_poll)

\* the poll at position i of the trace reported a registered status
RegisteredAt(i) ==
  /\ log[i].k = "cmd"
  /\ log[i].at = "AT+CREG?"
  /\ log[i].r \in {CregLine(REGISTERED_HOME_NET), CregLine(REGISTRED_NO_HOME_NET)}

\* C10: registered statuses are success terminals.  Once a poll has reported
\* REGISTERED_HOME_NET or REGISTRED_NO_HOME_NET, gsm_network_registration issues
\* no further poll, and it returns NO_ERROR.
C10_RegisteredIsTerminal ==
  InCall("gsm_network_registration") =>
    \A i \in DOMAIN log :
      RegisteredAt(i) =>
        /\ \A j \in Sent("AT+CREG?") : j <= i
        /\ pc = "done" => ret = NO_ERROR

\* the last poll of a finished gsm_network_registration reported status s
LastPollReported(s) ==
  /\ Done("gsm_network_registration")
  /\ log[Last(Sent("AT+CREG?"))].r = CregLine(s)

\* the values gsm_network_registration may return
RegistrationResults ==
  {NO_ERROR, ERROR_NETWORK_REGISTRATION, ERROR_REPLY} \cup IndeterminateError

\* C11: the result depends only on the status of the last poll.  The caller runs
\* gsm_network_registration again and again, so every pair of runs is a pair of
\* calls of one behaviour: whenever a run whose last poll reported s returned v,
\* every later run whose last poll reports s returns v as well.
C11_LastPollDecides ==
  \A s \in RegStatuses : \A v \in RegistrationResults :
    []((LastPollReported(s) /\ ret = v) => [](LastPollReported(s) => ret = v))


---------------------------------------------------------------------------
(* SIM868_http_send_request, http_init, http_start, http_action,           *)
(* http_read_all                                                           *)

MaxAttempts == 3

AT_HTTPDATA == "AT+HTTPDATA=200,8000"
AT_HTTPACTION == "AT+HTTPACTION=%u"
AT_HTTPPARA_CID == "AT+HTTPPARA=\"CID\",1"
AT_HTTPPARA_UA == "AT+HTTPPARA=\"UA\",\"%s\""
AT_HTTPPARA_CONTENT == "AT+HTTPPARA=\"CONTENT\",\"%s\""
AT_HTTPPARA_USERDATA == "AT+HTTPPARA=\"USERDATA\",\"%s\""
AT_HTTPPARA_URL == "AT+HTTPPARA=\"URL\",\"%s%s\""
JSON_STRUCTURE == "gs_http_header.json_structure"

HttpGlobals == <<g_http_buffer, g_http_status_code, json_structure>>

\* SIM868_http_set_json_structure: the caller sets a payload of len bytes
SIM868_http_set_json_structure ==
  /\ Idle
  /\ \E len \in JsonLengths : json_structure' = len
  /\ UNCHANGED <<pc, log, ret, loc, g_sim_buffer, g_http_buffer, g_http_status_code,
               GnssGlobals, sim_rx>>

\* lines 868-876: entry; error_status is not initialized
SIM868_http_send_request_call ==
  /\ Enter("SIM868_http_send_request")
  /\ \E method \in {GET, POST}, max_attempts \in 0..MaxAttempts,
        error_status \in IndeterminateError :
       loc' = [Loc0 EXCEPT !.method = method, !.max_attempts = max_attempts,
                           !.attempts = max_attempts,
                           !.error_status = error_status]
  /\ pc' = "hsr_loop1"
  /\ UNCHANGED <<g_sim_buffer, HttpGlobals, GnssGlobals, sim_rx>>

\* line 877, while(attempts--): enter http_init, or leave the loop for line 896
http_send_request_loop1 ==
  /\ pc = "hsr_loop1"
  /\ IF loc.attempts = 0
     THEN /\ loc' = [loc EXCEPT !.attempts = loc.max_attempts]
          /\ pc' = "hsr_loop2"
          /\ UNCHANGED log
     ELSE /\ loc' = [loc EXCEPT !.attempts = loc.attempts - 1]
          /\ pc' = "hi_term"
          /\ log' = Append(log, Call("http_init"))
  /\ UNCHANGED <<ret, g_sim_buffer, HttpGlobals, GnssGlobals, sim_rx>>

\* a slip of line 1852: a session that could not be terminated ends http_init
http_init_term_checked ==
  /\ pc = "hi_term"
  /\ \E line \in HttpCheckLines :
       /\ g_sim_buffer' = line
       /\ IF send_check_reply(line, L_OK)
          THEN /\ log' = log \o <<Tx("AT+HTTPTERM", 0), Ret("http_init", ERROR_REPLY)>>
               /\ loc' = [loc EXCEPT !.error_status = ERROR_REPLY]
               /\ pc' = "hsr_after_init"
          ELSE /\ log' = Append(log, Tx("AT+HTTPTERM", 0))
               /\ pc' = "hi_init"
               /\ UNCHANGED loc
  /\ UNCHANGED <<ret, HttpGlobals, GnssGlobals, sim_rx>>

\* line 1852: terminate any pending session; the reply is not looked at
http_init_term ==
  /\ pc = "hi_term"
  /\ \E line \in HttpCheckLines :
       /\ log' = Append(log, Tx("AT+HTTPTERM", 0))
       /\ g_sim_buffer' = line
  /\ pc' = "hi_init"
  /\ UNCHANGED <<ret, loc, HttpGlobals, GnssGlobals, sim_rx>>

\* a step of http_init that sends at and requires the reply OK: on a mismatch
\* http_init returns err; otherwise it goes on at next, and returns NO_ERROR
\* when next is the caller's position
http_init_check(here, at, err, next) ==
  /\ pc = here
  /\ \E line \in HttpCheckLines :
       LET e == IF send_check_reply(line, L_OK) THEN err ELSE NO_ERROR IN
       /\ g_sim_buffer' = line
       /\ IF e # NO_ERROR \/ next = "hsr_after_init"
          THEN /\ log' = log \o <<Tx(at, 0), Ret("http_init", e)>>
               /\ loc' = [loc EXCEPT !.error_status = e]
               /\ pc' = "hsr_after_init"
          ELSE /\ log' = Append(log, Tx(at, 0))
               /\ pc' = next
               /\ UNCHANGED loc
  /\ UNCHANGED <<ret, HttpGlobals, GnssGlobals, sim_rx>>

\* lines 1857-1860
http_init_init ==
  http_init_check("hi_init", "AT+HTTPINIT", ERROR_HTTP_SERVICE, "hi_cid")

\* lines 1865-1868
http_init_cid ==
  http_init_check("hi_cid", AT_HTTPPARA_CID, ERROR_REPLY, "hi_ua")

\* lines 1873-1878
http_init_ua ==
  http_init_check("hi_ua", AT_HTTPPARA_UA, ERROR_REPLY, "hi_content")

\* lines 1883-1888
http_init_content ==
  http_init_check("hi_content", AT_HTTPPARA_CONTENT, ERROR_REPLY, "hi_userdata")

\* lines 1893-1898
http_init_userdata ==
  http_init_check("hi_userdata", AT_HTTPPARA_USERDATA, ERROR_REPLY, "hi_url")

\* lines 1903-1910
http_init_url ==
  http_init_check("hi_url", AT_HTTPPARA_URL, ERROR_REPLY, "hsr_after_init")

\* a slip of lines 887-890: the exhausted budget does not end the call
InitLoopExit_noreturn(error_status, attempts) ==
  IF error_status = NO_ERROR THEN "break" ELSE "again"

\* lines 883-890: what follows an http_init that returned error_status
InitLoopExit(error_status, attempts) ==
  IF error_status = NO_ERROR THEN "break"
  ELSE IF attempts = 0 THEN "return"
  ELSE "again"

\* lines 883-890, 896
http_send_request_after_init ==
  /\ pc = "hsr_after_init"
  /\ LET exit == InitLoopExit(loc.error_status, loc.attempts) IN
       CASE exit = "break" ->
              /\ loc' = [loc EXCEPT !.attempts = loc.max_attempts]
              /\ pc' = "hsr_loop2"
              /\ UNCHANGED ret
         [] exit = "return" ->
              /\ Return(ERROR_HTTP_SERVICE)
              /\ UNCHANGED loc
         [] OTHER ->
              /\ pc' = "hsr_loop1"
              /\ UNCHANGED <<ret, loc>>
  /\ UNCHANGED <<log, g_sim_buffer, HttpGlobals, GnssGlobals, sim_rx>>

\* line 897, while(attempts--): enter http_start and http_action (line 2058), or
\* leave the loop and return error_status (line 913)
http_send_request_loop2 ==
  /\ pc = "hsr_loop2"
  /\ IF loc.attempts = 0
     THEN /\ loc' = [loc EXCEPT !.attempts = Uint8 - 1]
          /\ Return(loc.error_status)
          /\ UNCHANGED log
     ELSE /\ loc' = [loc EXCEPT !.attempts = loc.attempts - 1]
          /\ pc' = IF loc.method # 0 THEN "ha_data" ELSE "ha_action"
          /\ log' = log \o <<Call("http_start"), Call("http_action")>>
          /\ UNCHANGED ret
  /\ UNCHANGED <<g_sim_buffer, HttpGlobals, GnssGlobals, sim_rx>>

\* http_action or http_read_all (f) returns e # NO_ERROR, and so does http_start
\* (lines 2059-2062, 2068-2071), after the exchange x
StartFails(f, x, e) ==
  /\ log' = log \o <<x, Ret(f, e), Ret("http_start", e)>>
  /\ loc' = [loc EXCEPT !.start_status = e, !.error_status = e]
  /\ pc' = "hsr_after_start"

\* a slip of line 1941: the declared size follows the payload
HttpDataSize_strlen(len) == len

\* line 1941: the size declared by AT+HTTPDATA for a payload of len bytes
HttpDataSize(len) == 200

\* lines 1941-1944: declare the payload, expect the DOWNLOAD prompt
http_action_data ==
  /\ pc = "ha_data"
  /\ \E line \in {L_DOWNLOAD, L_ERROR} :
       LET x == Tx(AT_HTTPDATA, HttpDataSize(json_structure)) IN
       /\ g_sim_buffer' = line
       /\ IF send_check_reply(line, L_DOWNLOAD)
          THEN StartFails("http_action", x, ERROR_REPLY)
          ELSE /\ log' = Append(log, x)
               /\ pc' = "ha_json"
               /\ UNCHANGED loc
  /\ UNCHANGED <<ret, HttpGlobals, GnssGlobals, sim_rx>>

\* a slip of lines 1946-1949: the answer to the payload is not looked at
http_action_json_unchecked ==
  /\ pc = "ha_json"
  /\ \E line \in HttpCheckLines :
       /\ g_sim_buffer' = line
       /\ log' = Append(log, Tx(JSON_STRUCTURE, json_structure))
       /\ pc' = "ha_action"
  /\ UNCHANGED <<ret, loc, HttpGlobals, GnssGlobals, sim_rx>>

\* lines 1946-1949: stream the payload, expect OK
http_action_json ==
  /\ pc = "ha_json"
  /\ \E line \in HttpCheckLines :
       LET x == Tx(JSON_STRUCTURE, json_structure) IN
       /\ g_sim_buffer' = line
       /\ IF send_check_reply(line, L_OK)
          THEN StartFails("http_action", x, ERROR_JSON_STRUCTURE)
          ELSE /\ log' = Append(log, x)
               /\ pc' = "ha_action"
               /\ UNCHANGED loc
  /\ UNCHANGED <<ret, HttpGlobals, GnssGlobals, sim_rx>>

\* lines 1960-1969: send the request
http_action_action ==
  /\ pc = "ha_action"
  /\ \E line \in HttpCheckLines :
       LET x == Tx(AT_HTTPACTION, loc.method) IN
       /\ g_sim_buffer' = line
       /\ IF send_check_reply(line, L_OK)
          THEN StartFails("http_action", x, ERROR_HTTP_REQUEST)
          ELSE /\ log' = Append(log, x)
               /\ pc' = "ha_status"
               /\ UNCHANGED loc
  /\ UNCHANGED <<ret, HttpGlobals, GnssGlobals, sim_rx>>

\* a slip of line 1990: only 200 counts as success
StatusOk_only200(status) == status = OK

\* line 1990
StatusOk(status) == status = OK \/ status = CREATED

\* lines 1974-2001: read the status line, parse it, keep a failing status code
http_action_status ==
  /\ pc = "ha_status"
  /\ \E line \in {ActionLine(loc.method, s) : s \in HttpStatuses} \cup {L_ERROR} :
       LET pr == parse_reply(line, T_HTTPACTION, loc.status, ",", 1) IN
       /\ g_sim_buffer' = pr.buf
       /\ IF pr.err # NO_ERROR
          THEN /\ StartFails("http_action", Rx, ERROR_REPLY)
               /\ UNCHANGED g_http_status_code
          ELSE IF StatusOk(pr.v)
          THEN /\ log' = log \o <<Rx, Ret("http_action", NO_ERROR)>>
               /\ loc' = [loc EXCEPT !.status = pr.v, !.start_status = NO_ERROR]
               /\ pc' = "hr_read"
               /\ UNCHANGED g_http_status_code
          ELSE /\ log' = log \o <<Rx, Ret("http_action", ERROR_HTTP_STATUS_CODE),
                                  Ret("http_start", ERROR_HTTP_STATUS_CODE)>>
               /\ loc' = [loc EXCEPT !.status = pr.v,
                                     !.start_status = ERROR_HTTP_STATUS_CODE,
                                     !.error_status = ERROR_HTTP_STATUS_CODE]
               /\ pc' = "hsr_after_start"
               /\ g_http_status_code' = pr.v
  /\ UNCHANGED <<ret, g_http_buffer, json_structure, GnssGlobals, sim_rx>>

\* lines 2019-2027: ask for the response, look for the marker
http_read_all_read ==
  /\ pc = "hr_read"
  /\ \E line \in HttpReadLines :
       LET x == Tx("AT+HTTPREAD", 0) IN
       /\ g_sim_buffer' = line
       /\ IF strstr(line, T_HTTPREAD) = 0
          THEN /\ log' = log \o <<Call("http_read_all"), x,
                                  Ret("http_read_all", ERROR_REPLY),
                                  Ret("http_start", ERROR_REPLY)>>
               /\ loc' = [loc EXCEPT !.start_status = ERROR_REPLY,
                                     !.error_status = ERROR_REPLY]
               /\ pc' = "hsr_after_start"
          ELSE /\ log' = log \o <<Call("http_read_all"), x>>
               /\ pc' = "hr_body"
               /\ UNCHANGED loc
  /\ UNCHANGED <<ret, HttpGlobals, GnssGlobals, sim_rx>>

\* lines 2032-2035: capture the response into the http buffer
http_read_all_body ==
  /\ pc = "hr_body"
  /\ \E line \in BodyLines :
       /\ log' = log \o <<Rx, Ret("http_read_all", NO_ERROR)>>
       /\ g_sim_buffer' = line
       /\ g_http_buffer' = line
  /\ pc' = "hs_term"
  /\ UNCHANGED <<ret, loc, g_http_status_code, json_structure, GnssGlobals, sim_rx>>

\* a slip of lines 2076-2079: the session is left open
http_start_term_skipped ==
  /\ pc = "hs_term"
  /\ log' = Append(log, Ret("http_start", NO_ERROR))
  /\ loc' = [loc EXCEPT !.start_status = NO_ERROR, !.error_status = NO_ERROR]
  /\ pc' = "hsr_after_start"
  /\ UNCHANGED <<ret, g_sim_buffer, HttpGlobals, GnssGlobals, sim_rx>>

\* lines 2076-2084: terminate the session
http_start_term ==
  /\ pc = "hs_term"
  /\ \E line \in HttpCheckLines :
       LET e == IF send_check_reply(line, L_OK) THEN ERROR_REPLY ELSE NO_ERROR IN
       /\ log' = log \o <<Tx("AT+HTTPTERM", 0), Ret("http_start", e)>>
       /\ g_sim_buffer' = line
       /\ loc' = [loc EXCEPT !.start_status = e, !.error_status = e]
  /\ pc' = "hsr_after_start"
  /\ UNCHANGED <<ret, HttpGlobals, GnssGlobals, sim_rx>>

\* lines 903-910: what follows an http_start that returned error_status;
\* the test of line 907 decrements attempts a second time
StartLoopExit(error_status, attempts) ==
  IF error_status = NO_ERROR THEN [exit |-> "break", attempts |-> attempts]
  ELSE IF attempts = 0 THEN [exit |-> "return", attempts |-> Uint8 - 1]
  ELSE [exit |-> "again", attempts |-> attempts - 1]

\* a slip of lines 903-911: a failed attempt goes back to the loop of http_init
http_send_request_after_start_reinit ==
  /\ pc = "hsr_after_start"
  /\ LET x == StartLoopExit(loc.error_status, loc.attempts) IN
       /\ loc' = [loc EXCEPT !.attempts = x.attempts]
       /\ CASE x.exit = "break" -> Return(loc.error_status)
            [] x.exit = "return" -> Return(ERROR_HTTP_REQUEST)
            [] OTHER -> pc' = "hsr_loop1" /\ UNCHANGED ret
  /\ UNCHANGED <<log, g_sim_buffer, HttpGlobals, GnssGlobals, sim_rx>>

\* lines 903-913
http_send_request_after_start ==
  /\ pc = "hsr_after_start"
  /\ LET x == StartLoopExit(loc.error_status, loc.attempts) IN
       /\ loc' = [loc EXCEPT !.attempts = x.attempts]
       /\ CASE x.exit = "break" -> Return(loc.error_status)
            [] x.exit = "return" -> Return(ERROR_HTTP_REQUEST)
            [] OTHER -> pc' = "hsr_loop2" /\ UNCHANGED ret
  /\ UNCHANGED <<log, g_sim_buffer, HttpGlobals, GnssGlobals, sim_rx>>

InitHttp == InitCommon /\ json_structure \in JsonLengths

NextHttp ==
  \/ SIM868_http_set_json_structure
  \/ SIM868_http_send_request_call
  \/ http_send_request_loop1
  \/ http_init_term
  \/ http_init_init
  \/ http_init_cid
  \/ http_init_ua
  \/ http_init_content
  \/ http_init_userdata
  \/ http_init_url
  \/ http_send_request_after_init
  \/ http_send_request_loop2
  \/ http_action_data
  \/ http_action_json
  \/ http_action_action
  \/ http_action_status
  \/ http_read_all_read
  \/ http_read_all_body
  \/ http_start_term
  \/ http_send_request_after_start
  \/ caller_continues

SpecHttp == InitHttp /\ [][NextHttp]_vars

---------------------------------------------------------------------------
(* Claims about the HTTP session, checked under SpecHttp.                  *)

\* the positions at which function f was entered, and at which it returned
Calls(f) == {i \in DOMAIN log : log[i] = Call(f)}
Rets(f) == {i \in DOMAIN log : log[i].k = "ret" /\ log[i].at = f}

ActionPhaseCmds == {AT_HTTPDATA, JSON_STRUCTURE, AT_HTTPACTION, "AT+HTTPREAD"}

InitSucceeded == \E i \in Rets("http_init") : log[i].n = NO_ERROR
StartSucceeded == \E i \in Rets("http_start") : log[i].n = NO_ERROR

\* C2: bounded Init retry.  With max_attempts = N >= 1, as long as no http_init
\* has succeeded no Action-phase command is sent and http_start is not entered;
\* when every http_init failed, the call ran http_init exactly N times and
\* returned ERROR_HTTP_SERVICE.
C2_BoundedInitRetry ==
  (InCall("SIM868_http_send_request") /\ loc.max_attempts >= 1 /\ ~InitSucceeded) =>
    /\ \A at \in ActionPhaseCmds : Sent(at) = {}
    /\ Calls("http_start") = {}
    /\ pc = "done" =>
         /\ Cardinality(Calls("http_init")) = loc.max_attempts
         /\ ret = ERROR_HTTP_SERVICE

\* a call with a budget of at least two whose every http_init failed
C2_Witness ==
  /\ Done("SIM868_http_send_request")
  /\ loc.max_attempts >= 2
  /\ ~InitSucceeded
  /\ Cardinality(Rets("http_init")) = loc.max_attempts
  /\ ret = ERROR_HTTP_SERVICE

\* C3: max_attempts is the number of attempts of the full request.  With
\* max_attempts = N >= 1, once Init has succeeded and every http_start failed,
\* the call has invoked http_start exactly N times when it returns.
C3_StartAttemptsEqualBudget ==
  (Done("SIM868_http_send_request") /\ loc.max_attempts >= 1
     /\ InitSucceeded /\ ~StartSucceeded)
    => Cardinality(Calls("http_start")) = loc.max_attempts

\* the positions of the trace that belong to the http_start invocation returning
\* at position j: from its entry to its return
StartSpan(j) ==
  LET i == Last({c \in 1..j : log[c] = Call("http_start")}) IN (i + 1)..(j - 1)

\* AT+HTTPTERM was sent within the http_start invocation that returns at j
TermSentBefore(j) == \E t \in StartSpan(j) : log[t] = Tx("AT+HTTPTERM", 0)

\* the Action step and the ReadAll step of that invocation both succeeded
StepsSucceededBefore(j) ==
  /\ \E a \in StartSpan(j) : log[a] = Ret("http_action", NO_ERROR)
  /\ \E b \in StartSpan(j) : log[b] = Ret("http_read_all", NO_ERROR)

\* C4 as stated: every invocation of http_start sends AT+HTTPTERM before it
\* returns, whether the Action step and the ReadAll step succeeded or failed.
C4_TerminateAlways ==
  InCall("SIM868_http_send_request") =>
    \A j \in Rets("http_start") : TermSentBefore(j)

\* C4 as amended: an invocation of http_start sends AT+HTTPTERM before it returns
\* exactly when its Action step and its ReadAll step both succeeded; when one of
\* them failed it returns without sending AT+HTTPTERM.
C4_TerminateAfterSuccess ==
  InCall("SIM868_http_send_request") =>
    \A j \in Rets("http_start") : TermSentBefore(j) <=> StepsSucceededBefore(j)

\* an http_start whose Action and ReadAll succeeded has returned after AT+HTTPTERM
C4_Witness ==
  /\ Done("SIM868_http_send_request")
  /\ \E j \in Rets("http_start") : StepsSucceededBefore(j) /\ TermSentBefore(j)

StatusLineAt(a, s) ==
  /\ a > 1
  /\ log[a - 1] = Rx
  /\ a >= Len(log) - 1
  /\ g_sim_buffer = T_HTTPACTION \o Dec(loc.method) \o <<",">> \o Dec(s)

\* C6: when the +HTTPACTION status line is parsed, http_action returns NO_ERROR
\* if and only if the status is 200 or 201; for every other status s it returns
\* ERROR_HTTP_STATUS_CODE and g_http_status_code holds s.
C6_StatusCode ==
  InCall("SIM868_http_send_request") =>
    \A a \in Rets("http_action") : \A s \in HttpStatuses :
      StatusLineAt(a, s) =>
        /\ log[a].n = NO_ERROR <=> s \in {200, 201}
        /\ s \notin {200, 201} =>
             /\ log[a].n = ERROR_HTTP_STATUS_CODE
             /\ g_http_status_code = s

\* http_action has returned on the status 404, which is retained
C6_Witness ==
  /\ InCall("SIM868_http_send_request")
  /\ Rets("http_action") # {}
  /\ StatusLineAt(Last(Rets("http_action")), NOT_FOUND)
  /\ log[Last(Rets("http_action"))].n = ERROR_HTTP_STATUS_CODE
  /\ g_http_status_code = NOT_FOUND


---------------------------------------------------------------------------
(* SIM868_gprs_gsm_init: selection mode, RSSI, registration, bearer.       *)

T_COPS == <<"+", "C", "O", "P", "S", ":", " ">>
T_CSQ == <<"+", "C", "S", "Q", ":", " ">>

\* answers to AT+COPS?: "+COPS: <mode>"
CopsLines == {T_COPS \o Dec(m) : m \in {0, 1}} \cup {L_ERROR}

\* signal strengths the modem may report: both sides of both ends of the window
RssiValues == {8, 9, 31, 32}

\* answers to AT+CSQ: "+CSQ: <rssi>,<ber>"
CsqLine(v) == T_CSQ \o Dec(v) \o <<",", "0">>

CsqLines == {CsqLine(v) : v \in RssiValues} \cup {L_ERROR}

\* lines 827, 833, 839: if(error_status) return error_status;
StepFailed_never(error_status) == FALSE

StepFailed(error_status) == error_status # NO_ERROR

\* line 1755: the test that rejects a signal strength
RssiRejected(state) == state < 9 /\ state > 32

SIM868_gprs_gsm_init_call ==
  /\ Enter("SIM868_gprs_gsm_init")
  /\ loc' = Loc0
  /\ pc' = "gsm_mode"
  /\ UNCHANGED <<g_sim_buffer, g_http_buffer, g_http_status_code, json_structure,
               GnssGlobals, sim_rx>>

\* gprs_network_mode, lines 1704-1712, and lines 826-830 when it fails.  The
\* error_status read at line 1712 is declared nowhere in the function: whether the
\* mode is set when it is not automatic is left open.
gprs_network_mode_query ==
  /\ pc = "gsm_mode"
  /\ \E line \in CopsLines, error_status \in IndeterminateError :
       LET pr == parse_reply(line, T_COPS, 0, ",", 0)
           sent == <<Call("gprs_network_mode"), Tx("AT+COPS?", 0)>>
       IN  /\ g_sim_buffer' = pr.buf
           /\ IF pr.err # NO_ERROR
              THEN /\ log' = log \o sent \o <<Ret("gprs_network_mode", ERROR_REPLY)>>
                   /\ IF StepFailed(ERROR_REPLY)
                      THEN Return(ERROR_REPLY)
                      ELSE pc' = "gsm_rssi" /\ UNCHANGED ret
              ELSE IF pr.v # 0 /\ error_status = NO_ERROR
              THEN /\ log' = log \o sent
                   /\ pc' = "gsm_mode_set"
                   /\ UNCHANGED ret
              ELSE /\ log' = log \o sent \o <<Ret("gprs_network_mode", NO_ERROR)>>
                   /\ pc' = "gsm_rssi"
                   /\ UNCHANGED ret
  /\ UNCHANGED <<loc, g_http_buffer, g_http_status_code, json_structure,
               GnssGlobals, sim_rx>>

\* gprs_network_mode, lines 1714-1720, and lines 826-830
gprs_network_mode_set ==
  /\ pc = "gsm_mode_set"
  /\ \E line \in HttpCheckLines :
       LET e == IF send_check_reply(line, L_OK) THEN ERROR_REPLY ELSE NO_ERROR IN
       /\ log' = log \o <<Tx("AT+COPS=0", 0), Ret("gprs_network_mode", e)>>
       /\ g_sim_buffer' = line
       /\ IF StepFailed(e)
          THEN Return(e)
          ELSE pc' = "gsm_rssi" /\ UNCHANGED ret
  /\ UNCHANGED <<loc, g_http_buffer, g_http_status_code, json_structure,
               GnssGlobals, sim_rx>>

\* gprs_network_rssi, lines 1743-1760, and lines 832-836
gprs_network_rssi ==
  /\ pc = "gsm_rssi"
  /\ \E line \in CsqLines :
       LET pr == parse_reply(line, T_CSQ, 0, ",", 0)
           e  == IF pr.err # NO_ERROR THEN ERROR_REPLY
                 ELSE IF RssiRejected(pr.v) THEN ERROR_NETWORK_RSSI
                 ELSE NO_ERROR
       IN  /\ log' = log \o <<Call("gprs_network_rssi"), Cmd("AT+CSQ", 0, line),
                              Ret("gprs_network_rssi", e)>>
           /\ g_sim_buffer' = pr.buf
           /\ IF StepFailed(e)
              THEN Return(e)
              ELSE pc' = "gsm_reg" /\ UNCHANGED ret
  /\ UNCHANGED <<loc, g_http_buffer, g_http_status_code, json_structure,
               GnssGlobals, sim_rx>>

\* line 838: gsm_network_registration is entered, its locals not initialized
gprs_gsm_init_registration ==
  /\ pc = "gsm_reg"
  /\ log' = Append(log, Call("gsm_network_registration"))
  /\ \E status \in IndeterminateStatus, error_status \in IndeterminateError :
       loc' = [Loc0 EXCEPT !.status = status, !.error_status = error_status,
                           !.minutes = 0, !.seconds = ROUND_SECONDS]
  /\ pc' = "gsm_reg_poll"
  /\ UNCHANGED <<ret, g_sim_buffer, g_http_buffer, g_http_status_code,
                 json_structure, GnssGlobals, sim_rx>>

\* lines 1796-1831, one poll of the registration called at line 838, and lines
\* 839-842 when the loops have ended
gprs_gsm_init_registration_poll ==
  /\ pc = "gsm_reg_poll"
  /\ \E line \in CregLines :
       LET pr == parse_reply(line, T_CREG, loc.status, ",", 1)
           error_status == RegistrationSwitch(pr.v, loc.error_status)
           next == RegistrationNext(pr.v, loc.seconds, loc.minutes)
           polled == <<Tx("AT+CREG?", 0), Delay(POLL_SECONDS)>>
       IN  /\ g_sim_buffer' = pr.buf
           /\ loc' = [loc EXCEPT !.status = pr.v, !.error_status = error_status,
                                 !.seconds = next.seconds, !.minutes = next.minutes]
           /\ IF next.pc # "done"
              THEN /\ log' = log \o polled
                   /\ pc' = "gsm_reg_poll"
                   /\ UNCHANGED ret
              ELSE /\ log' = log \o polled
                               \o <<Ret("gsm_network_registration", error_status)>>
                   /\ IF StepFailed(error_status)
                      THEN Return(error_status)
                      ELSE pc' = "gsm_enable" /\ UNCHANGED ret
  /\ UNCHANGED <<g_http_buffer, g_http_status_code, json_structure, GnssGlobals, sim_rx>>

\* line 847: SIM868_gprs_enable(true), whose result is the result of the call
gprs_gsm_init_enable ==
  /\ pc = "gsm_enable"
  /\ log' = Append(log, Call("SIM868_gprs_enable"))
  /\ loc' = [Loc0 EXCEPT !.state = TRUE]
  /\ pc' = "ge_cgatt"
  /\ UNCHANGED <<ret, g_sim_buffer, g_http_buffer, g_http_status_code,
                 json_structure, GnssGlobals, sim_rx>>

InitGsm == InitCommon /\ json_structure = 0

NextGsm ==
  \/ SIM868_gprs_gsm_init_call
  \/ gprs_network_mode_query
  \/ gprs_network_mode_set
  \/ gprs_network_rssi
  \/ gprs_gsm_init_registration
  \/ gprs_gsm_init_registration_poll
  \/ gprs_gsm_init_enable
  \/ NextGprs

SpecGsm == InitGsm /\ [][NextGsm]_vars

---------------------------------------------------------------------------
(* Claims about SIM868_gprs_gsm_init, checked under SpecGsm.               *)

\* the signal strength parsed from the reply at position i of the trace
RssiParsed(i) == parse_reply(log[i].r, T_CSQ, 0, ",", 0)

\* the window of usable signal strengths
RssiUsable(v) == 9 <= v /\ v < 32

\* C12: gprs_network_rssi accepts a parsed signal strength v exactly when
\* 9 <= v < 32; for every parsed value outside the window it returns
\* ERROR_NETWORK_RSSI and SIM868_gprs_gsm_init sends no registration poll.
C12_RssiWindow ==
  InCall("SIM868_gprs_gsm_init") =>
    \A i \in Sent("AT+CSQ") :
      RssiParsed(i).err = NO_ERROR =>
        IF RssiUsable(RssiParsed(i).v)
        THEN log[i + 1] = Ret("gprs_network_rssi", NO_ERROR)
        ELSE /\ log[i + 1] = Ret("gprs_network_rssi", ERROR_NETWORK_RSSI)
             /\ Sent("AT+CREG?") = {}

\* the steps of SIM868_gprs_gsm_init, in the order of lines 826-847
GsmInitSteps == <<"gprs_network_mode", "gprs_network_rssi",
                  "gsm_network_registration", "SIM868_gprs_enable">>

\* C16: SIM868_gprs_gsm_init is fail-fast.  A step that returns a non-zero error
\* is the last entry of the trace and its error is the result of the call (no
\* command is sent after it); a step is entered only after every step before it
\* has returned NO_ERROR, so SIM868_gprs_enable(true) is invoked only after
\* selection mode, RSSI and registration all returned NO_ERROR, in that order.
C16_FailFast ==
  InCall("SIM868_gprs_gsm_init") =>
    /\ \A i \in DOMAIN log :
         (log[i].k = "ret" /\ log[i].n # NO_ERROR) =>
           i = Len(log) /\ pc = "done" /\ ret = log[i].n
    /\ \A b \in 2..4 : \A c \in Calls(GsmInitSteps[b]) :
         \A a \in 1..(b - 1) :
           \E r \in 1..(c - 1) :
             /\ log[r] = Ret(GsmInitSteps[a], NO_ERROR)
             /\ \A x \in 1..(a - 1) :
                  \E q \in 1..(r - 1) : log[q] = Ret(GsmInitSteps[x], NO_ERROR)

\* selection mode and RSSI succeeded, registration failed: the call ended there
C16_Witness ==
  /\ Done("SIM868_gprs_gsm_init")
  /\ log[Len(log)] = Ret("gsm_network_registration", ERROR_NETWORK_REGISTRATION)
  /\ Rets("gprs_network_rssi") # {}
  /\ Calls("SIM868_gprs_enable") = {}
  /\ ret = ERROR_NETWORK_REGISTRATION


---------------------------------------------------------------------------
(* SIM868_sim_card_init: card detection, card status, PIN.                 *)

T_CSDT == <<"+", "C", "S", "D", "T", ":", " ">>
T_CSMINS == <<"+", "C", "S", "M", "I", "N", "S", ":", " ">>
T_CPIN == <<"+", "C", "P", "I", "N", ":", " ">>

READY == <<"R", "E", "A", "D", "Y">>
SIM_PIN == <<"S", "I", "M", " ", "P", "I", "N">>

\* answers to AT+CSDT?: "+CSDT: <mode>"
CsdtLines == {T_CSDT \o Dec(m) : m \in {0, 1}} \cup {L_ERROR}

\* answers to AT+CSMINS?: "+CSMINS: <n>,<inserted>"
CsminsLine(n, inserted) == T_CSMINS \o Dec(n) \o <<",">> \o Dec(inserted)

CsminsLines == {CsminsLine(n, i) : n \in {0, 1}, i \in {0, 1}} \cup {L_ERROR, L_NONE}

\* texts after "+CPIN: ": READY, a PIN request, READY cut short, READY with a tail
PinTexts == {READY, SIM_PIN, SubSeq(READY, 1, 4), READY \o <<" ">>}

\* answers to AT+CPIN?
CpinLines == {T_CPIN \o t : t \in PinTexts} \cup {READY, L_ERROR, L_NONE}

\* line 1614: a slip that takes any parsed status for an inserted card
CardInserted_any(state) == TRUE

\* line 1614: the card is reported inserted
CardInserted(state) == state = 1

SIM868_sim_card_init_call ==
  /\ Enter("SIM868_sim_card_init")
  /\ loc' = Loc0
  /\ pc' = "sim_enable"
  /\ UNCHANGED <<g_sim_buffer, g_http_buffer, g_http_status_code, json_structure,
               GnssGlobals, sim_rx>>

\* sim_card_enable, lines 1567-1574, and lines 591-595 when it fails
sim_card_enable_query ==
  /\ pc = "sim_enable"
  /\ \E line \in CsdtLines :
       LET pr == parse_reply(line, T_CSDT, 0, ",", 0)
           sent == <<Call("sim_card_enable"), Cmd("AT+CSDT?", 0, line)>>
       IN  /\ g_sim_buffer' = pr.buf
           /\ IF pr.err # NO_ERROR
              THEN /\ log' = log \o sent \o <<Ret("sim_card_enable", ERROR_REPLY)>>
                   /\ Return(ERROR_REPLY)
              ELSE IF pr.v # 1
              THEN /\ log' = log \o sent
                   /\ pc' = "sim_enable_set"
                   /\ UNCHANGED ret
              ELSE /\ log' = log \o sent \o <<Ret("sim_card_enable", NO_ERROR)>>
                   /\ pc' = "sim_status"
                   /\ UNCHANGED ret
  /\ UNCHANGED <<loc, g_http_buffer, g_http_status_code, json_structure,
               GnssGlobals, sim_rx>>

\* sim_card_enable, lines 1575-1583, and lines 591-595
sim_card_enable_set ==
  /\ pc = "sim_enable_set"
  /\ \E line \in CheckLines :
       LET e == IF send_check_reply(line, L_OK) THEN ERROR_REPLY ELSE NO_ERROR IN
       /\ log' = log \o <<Cmd("AT+CSDT=1", 0, line), Ret("sim_card_enable", e)>>
       /\ g_sim_buffer' = line
       /\ IF e # NO_ERROR
          THEN Return(e)
          ELSE pc' = "sim_status" /\ UNCHANGED ret
  /\ UNCHANGED <<loc, g_http_buffer, g_http_status_code, json_structure,
               GnssGlobals, sim_rx>>

\* sim_card_status, lines 1606-1621, and lines 597-601
sim_card_status ==
  /\ pc = "sim_status"
  /\ \E line \in CsminsLines :
       LET pr == parse_reply(line, T_CSMINS, 0, ",", 1)
           e  == IF pr.err # NO_ERROR THEN ERROR_REPLY
                 ELSE IF ~CardInserted(pr.v) THEN ERROR_SIMCARD_STATUS
                 ELSE NO_ERROR
       IN  /\ log' = log \o <<Call("sim_card_status"), Cmd("AT+CSMINS?", 0, line),
                              Ret("sim_card_status", e)>>
           /\ g_sim_buffer' = pr.buf
           /\ IF e # NO_ERROR
              THEN Return(e)
              ELSE pc' = "sim_pin" /\ UNCHANGED ret
  /\ UNCHANGED <<loc, g_http_buffer, g_http_status_code, json_structure,
               GnssGlobals, sim_rx>>

\* sim_card_pin, lines 1645-1660, and lines 603-612
sim_card_pin ==
  /\ pc = "sim_pin"
  /\ \E line \in CpinLines :
       LET p == strstr(line, T_CPIN)
           e == IF p = 0 THEN ERROR_REPLY
                ELSE IF From(line, p + Len(T_CPIN)) # READY THEN ERROR_SIMCARD_PIN
                ELSE NO_ERROR
       IN  /\ log' = log \o <<Call("sim_card_pin"), Cmd("AT+CPIN?", 0, line),
                              Ret("sim_card_pin", e)>>
           /\ g_sim_buffer' = line
           /\ Return(e)
  /\ UNCHANGED <<loc, g_http_buffer, g_http_status_code, json_structure,
               GnssGlobals, sim_rx>>

NextSim ==
  \/ SIM868_sim_card_init_call
  \/ sim_card_enable_query
  \/ sim_card_enable_set
  \/ sim_card_status
  \/ sim_card_pin
  \/ caller_continues

\* the entry of the trace after the exchange at position i
Answered(i, f, e) == log[i + 1] = Ret(f, e)

\* C13: SIM868_sim_card_init runs enable, status and PIN in that order and aborts
\* at the first failure with that step's error.  A step that returns a non-zero
\* error ends the trace and its error is the result of the call; AT+CSMINS? is sent
\* only after the enable step returned NO_ERROR and AT+CPIN? only after the status
\* step did.  The status step returns ERROR_REPLY for a reply without a status
\* field, ERROR_SIMCARD_STATUS when the inserted field is not 1; the PIN step
\* returns ERROR_REPLY for a reply without "+CPIN: " and ERROR_SIMCARD_PIN when
\* the text after it is not exactly READY.
C13_SimCardSequence ==
  InCall("SIM868_sim_card_init") =>
    /\ \A i \in DOMAIN log :
         (log[i].k = "ret" /\ log[i].n # NO_ERROR) =>
           i = Len(log) /\ pc = "done" /\ ret = log[i].n
    /\ \A i \in Sent("AT+CSMINS?") :
         /\ \E r \in 1..(i - 1) : log[r] = Ret("sim_card_enable", NO_ERROR)
         /\ log[i].r \in {L_ERROR, L_NONE} => Answered(i, "sim_card_status", ERROR_REPLY)
         /\ \A n \in {0, 1} :
              /\ log[i].r = CsminsLine(n, 0) =>
                   Answered(i, "sim_card_status", ERROR_SIMCARD_STATUS)
              /\ log[i].r = CsminsLine(n, 1) =>
                   Answered(i, "sim_card_status", NO_ERROR)
    /\ \A i \in Sent("AT+CPIN?") :
         /\ \E r \in 1..(i - 1) :
              /\ log[r] = Ret("sim_card_status", NO_ERROR)
              /\ \E q \in 1..(r - 1) : log[q] = Ret("sim_card_enable", NO_ERROR)
         /\ log[i].r \in {READY, L_ERROR, L_NONE} =>
              Answered(i, "sim_card_pin", ERROR_REPLY)
         /\ \A t \in PinTexts :
              log[i].r = T_CPIN \o t =>
                Answered(i, "sim_card_pin",
                         IF t = READY THEN NO_ERROR ELSE ERROR_SIMCARD_PIN)
    /\ (pc = "done" /\ ret = NO_ERROR) =>
         log[Len(log)] = Ret("sim_card_pin", NO_ERROR)

\* the card is reported not inserted: the call ended at the status step with
\* ERROR_SIMCARD_STATUS and the PIN was never queried
C13_Witness ==
  /\ Done("SIM868_sim_card_init")
  /\ log[Len(log)] = Ret("sim_card_status", ERROR_SIMCARD_STATUS)
  /\ Sent("AT+CPIN?") = {}
  /\ ret = ERROR_SIMCARD_STATUS


---------------------------------------------------------------------------
(* SIM868_init: the autobaud handshake and the echo mode.                  *)

AUTOBAUD_TIME == 2000
AUTOBAUD_STEP == 500

L_AT == <<"A", "T">>

\* what the driver may read after an AT probe: the reply, its own echo, nothing
ProbeLines == {L_OK, L_AT, L_NONE}

SIM868_init_call ==
  /\ Enter("SIM868_init")
  /\ loc' = [Loc0 EXCEPT !.error_status = NO_ERROR, !.time_out = AUTOBAUD_TIME]
  /\ pc' = "init_probe_ok"
  /\ UNCHANGED <<g_sim_buffer, g_http_buffer, g_http_status_code, json_structure,
               GnssGlobals, sim_rx>>

\* lines 429-431 and 445-447: the pending input is read and thrown away
Flush == [k |-> "flush", at |-> "_sim_read_buffer", n |-> 0, r |-> <<>>]

\* a slip of line 437: the first probe leaves the loop when its reply is not OK
SIM868_init_probe_ok_inverted ==
  /\ pc = "init_probe_ok"
  /\ \E line \in ProbeLines :
       /\ log' = log \o <<Flush, Cmd("AT", 0, line)>>
       /\ g_sim_buffer' = line
       /\ pc' = IF send_check_reply(line, L_OK) THEN "init_echo_off"
                ELSE "init_probe_at"
  /\ UNCHANGED <<ret, loc, g_http_buffer, g_http_status_code, json_structure,
               GnssGlobals, sim_rx>>

\* lines 425-440: the flush and the first probe of a round; a reply OK leaves the
\* loop
SIM868_init_probe_ok ==
  /\ pc = "init_probe_ok"
  /\ \E line \in ProbeLines :
       /\ log' = log \o <<Flush, Cmd("AT", 0, line)>>
       /\ g_sim_buffer' = line
       /\ pc' = IF ~send_check_reply(line, L_OK) THEN "init_echo_off"
                ELSE "init_probe_at"
  /\ UNCHANGED <<ret, loc, g_http_buffer, g_http_status_code, json_structure,
               GnssGlobals, sim_rx>>

\* lines 442-460: the flush and the second probe of a round; the echo AT leaves
\* the loop, anything else costs 500 ms of the two seconds
SIM868_init_probe_at ==
  /\ pc = "init_probe_at"
  /\ \E line \in ProbeLines :
       /\ log' = log \o <<Flush, Cmd("AT", 0, line)>>
       /\ g_sim_buffer' = line
       /\ IF ~send_check_reply(line, L_AT)
          THEN pc' = "init_echo_off" /\ UNCHANGED loc
          ELSE /\ loc' = [loc EXCEPT !.time_out = loc.time_out - AUTOBAUD_STEP]
               /\ pc' = IF loc.time_out - AUTOBAUD_STEP > 0 THEN "init_probe_ok"
                        ELSE "init_echo_off"
  /\ UNCHANGED <<ret, g_http_buffer, g_http_status_code, json_structure,
               GnssGlobals, sim_rx>>

\* lines 465-466: the echo is turned off, the reply is not looked at
SIM868_init_echo_off ==
  /\ pc = "init_echo_off"
  /\ \E line \in CheckLines :
       /\ log' = Append(log, Cmd("ATE0", 0, line))
       /\ g_sim_buffer' = line
  /\ pc' = "init_echo_check"
  /\ UNCHANGED <<ret, loc, g_http_buffer, g_http_status_code, json_structure,
               GnssGlobals, sim_rx>>

\* a slip of lines 471-474: a handshake that ran out of time is an error as well
SIM868_init_echo_check_handshake ==
  /\ pc = "init_echo_check"
  /\ \E line \in CheckLines :
       /\ log' = Append(log, Cmd("ATE0", 0, line))
       /\ g_sim_buffer' = line
       /\ Return(IF send_check_reply(line, L_OK) \/ loc.time_out = 0
                 THEN ERROR_AUTOBAUD_MODE ELSE loc.error_status)
  /\ UNCHANGED <<loc, g_http_buffer, g_http_status_code, json_structure,
               GnssGlobals, sim_rx>>

\* lines 471-481: the second ATE0 decides the result
SIM868_init_echo_check ==
  /\ pc = "init_echo_check"
  /\ \E line \in CheckLines :
       /\ log' = Append(log, Cmd("ATE0", 0, line))
       /\ g_sim_buffer' = line
       /\ Return(IF send_check_reply(line, L_OK)
                 THEN ERROR_AUTOBAUD_MODE ELSE loc.error_status)
  /\ UNCHANGED <<loc, g_http_buffer, g_http_status_code, json_structure,
               GnssGlobals, sim_rx>>


---------------------------------------------------------------------------
(* SIM868_set_power_level, sim_power_up, sim_power_dowm.  The status line  *)
(* is an input of the driver: every read of _sim_state() may find it       *)
(* either way.                                                             *)

POWER_TICKS == 1000

\* the power levels a caller may ask for; 3 is none of them
PowerLevels == {OFF, ON, RESET, 3}

\* sim_change_state: one pulse on the power line
Pulse == [k |-> "pulse", at |-> "sim_change_state", n |-> 0, r |-> <<>>]
\* _sim_state(), read by SIM868_set_power_level itself
StateRead(line) == [k |-> "state", at |-> "_sim_state", n |-> line, r |-> <<>>]

\* a slip of line 538: the power-up follows the power-down whatever the line reads
PowerUpAfterDown_always(line) == TRUE

\* line 538: the double check before the power-up of a reset
PowerUpAfterDown(line) == line = OFF

\* lines 500-504: error_status is not initialized, the status line is read
SIM868_set_power_level_call ==
  /\ Enter("SIM868_set_power_level")
  /\ \E state \in PowerLevels, curr_state \in {OFF, ON},
        error_status \in IndeterminateError :
       loc' = [Loc0 EXCEPT !.level = state, !.curr_state = curr_state,
                           !.error_status = error_status]
  /\ pc' = "pw_switch"
  /\ UNCHANGED <<g_sim_buffer, g_http_buffer, g_http_status_code, json_structure,
               GnssGlobals, sim_rx>>

\* lines 506-557: the switch on the requested level
SIM868_set_power_level_switch ==
  /\ pc = "pw_switch"
  /\ IF loc.level = ON
     THEN IF loc.curr_state = OFF
          THEN pc' = "pw_up_pulse" /\ UNCHANGED ret
          ELSE Return(loc.error_status)
     ELSE IF loc.level = OFF
     THEN IF loc.curr_state = ON
          THEN pc' = "pw_down_pulse" /\ UNCHANGED ret
          ELSE Return(loc.error_status)
     ELSE IF loc.level = RESET
     THEN IF loc.curr_state = ON
          THEN pc' = "pw_down_pulse" /\ UNCHANGED ret
          ELSE IF loc.curr_state = OFF
          THEN pc' = "pw_up_pulse" /\ UNCHANGED ret
          ELSE Return(loc.error_status)
     ELSE Return(ERROR_POWER_STATE)
  /\ UNCHANGED <<log, loc, g_sim_buffer, g_http_buffer, g_http_status_code,
                 json_structure, GnssGlobals, sim_rx>>

\* lines 1442-1448 and 1493-1499: the pulse, and the poll set to 1000 rounds
power_pulse(here, f, next) ==
  /\ pc = here
  /\ log' = log \o <<Call(f), Pulse>>
  /\ loc' = [loc EXCEPT !.time_out = POWER_TICKS]
  /\ pc' = next
  /\ UNCHANGED <<ret, g_sim_buffer, g_http_buffer, g_http_status_code,
                 json_structure, GnssGlobals, sim_rx>>

sim_power_up_pulse == power_pulse("pw_up_pulse", "sim_power_up", "pw_up_poll")

sim_power_dowm_pulse == power_pulse("pw_down_pulse", "sim_power_dowm", "pw_down_poll")

\* lines 1453-1470: one round of the poll for ON.  time_out counts the rounds
\* left, this one included; the helper's result is the result of the call.
sim_power_up_poll ==
  /\ pc = "pw_up_poll"
  /\ \E line \in {OFF, ON} :
       IF line # 0
       THEN /\ log' = Append(log, Ret("sim_power_up", NO_ERROR))
            /\ loc' = [loc EXCEPT !.error_status = NO_ERROR]
            /\ Return(NO_ERROR)
       ELSE IF loc.time_out - 1 = 0
       THEN /\ log' = Append(log, Ret("sim_power_up", ERROR_POWER_STATE))
            /\ loc' = [loc EXCEPT !.error_status = ERROR_POWER_STATE,
                                  !.time_out = 0]
            /\ Return(ERROR_POWER_STATE)
       ELSE /\ loc' = [loc EXCEPT !.error_status = ERROR_POWER_STATE,
                                  !.time_out = loc.time_out - 1]
            /\ UNCHANGED <<pc, ret, log>>
  /\ UNCHANGED <<g_sim_buffer, g_http_buffer, g_http_status_code, json_structure,
               GnssGlobals, sim_rx>>

\* lines 1504-1521: one round of the poll for OFF; a reset goes on at line 538
sim_power_dowm_poll ==
  /\ pc = "pw_down_poll"
  /\ \E line \in {OFF, ON} :
       LET after(e) == IF loc.level = RESET
                       THEN pc' = "pw_recheck" /\ UNCHANGED ret
                       ELSE Return(e)
       IN  IF line = 0
           THEN /\ log' = Append(log, Ret("sim_power_dowm", NO_ERROR))
                /\ loc' = [loc EXCEPT !.error_status = NO_ERROR]
                /\ after(NO_ERROR)
           ELSE IF loc.time_out - 1 = 0
           THEN /\ log' = Append(log, Ret("sim_power_dowm", ERROR_POWER_STATE))
                /\ loc' = [loc EXCEPT !.error_status = ERROR_POWER_STATE,
                                      !.time_out = 0]
                /\ after(ERROR_POWER_STATE)
           ELSE /\ loc' = [loc EXCEPT !.error_status = ERROR_POWER_STATE,
                                      !.time_out = loc.time_out - 1]
                /\ UNCHANGED <<pc, ret, log>>
  /\ UNCHANGED <<g_sim_buffer, g_http_buffer, g_http_status_code, json_structure,
               GnssGlobals, sim_rx>>

\* lines 538-542: the status line is read again; the power-up follows when it
\* reads OFF, otherwise the result of the power-down is returned
SIM868_set_power_level_recheck ==
  /\ pc = "pw_recheck"
  /\ \E line \in {OFF, ON} :
       /\ log' = Append(log, StateRead(line))
       /\ IF PowerUpAfterDown(line)
          THEN pc' = "pw_up_pulse" /\ UNCHANGED ret
          ELSE Return(loc.error_status)
  /\ UNCHANGED <<loc, g_sim_buffer, g_http_buffer, g_http_status_code,
                 json_structure, GnssGlobals, sim_rx>>

---------------------------------------------------------------------------
(* Start-up of the module: power, autobaud handshake, SIM card.            *)

InitBoot == InitCommon /\ json_structure = 0

NextBoot ==
  \/ SIM868_set_power_level_call
  \/ SIM868_set_power_level_switch
  \/ sim_power_up_pulse
  \/ sim_power_up_poll
  \/ sim_power_dowm_pulse
  \/ sim_power_dowm_poll
  \/ SIM868_set_power_level_recheck
  \/ SIM868_init_call
  \/ SIM868_init_probe_ok
  \/ SIM868_init_probe_at
  \/ SIM868_init_echo_off
  \/ SIM868_init_echo_check
  \/ NextSim

SpecBoot == InitBoot /\ [][NextBoot]_vars

---------------------------------------------------------------------------
(* Claims about the start-up calls, checked under SpecBoot.                *)

\* C14: SIM868_init returns ERROR_AUTOBAUD_MODE if and only if the reply to the
\* second ATE0 is not exactly OK, and NO_ERROR otherwise, whatever the AT probes
\* and the first ATE0 were answered.
C14_SecondEchoDecides ==
  Done("SIM868_init") =>
    /\ Cardinality(Sent("ATE0")) = 2
    /\ ret = IF log[Last(Sent("ATE0"))].r = L_OK THEN NO_ERROR
             ELSE ERROR_AUTOBAUD_MODE

\* no probe of the handshake matched in two seconds and the first ATE0 was
\* refused, yet the second ATE0 was answered OK and the call returned NO_ERROR
C14_Witness ==
  /\ Done("SIM868_init")
  /\ loc.time_out = 0
  /\ \A i \in Sent("AT") : log[i].r = L_NONE
  /\ log[First(Sent("ATE0"))].r = L_ERROR
  /\ log[Last(Sent("ATE0"))].r = L_OK
  /\ ret = NO_ERROR

Pulses == {i \in DOMAIN log : log[i] = Pulse}

\* a call SIM868_set_power_level(RESET) that found the module ON
ResetFromOn ==
  /\ InCall("SIM868_set_power_level")
  /\ loc.level = RESET
  /\ loc.curr_state = ON

\* a power helper returns ERROR_POWER_STATE only when its 1000 rounds are used up
PollExhausted ==
  \A f \in {"sim_power_up", "sim_power_dowm"} :
    log[Len(log)] = Ret(f, ERROR_POWER_STATE) => loc.time_out = 0

\* C15 as stated: a reset issues at most two pulses; from ON, when the power-down
\* poll does not read OFF in its 1000 rounds the call returns ERROR_POWER_STATE
\* and no power-up pulse is issued; a power-up whose poll does not read ON in its
\* 1000 rounds makes the call return ERROR_POWER_STATE.
C15_ResetAbortsOnFailedPowerDown ==
  ResetFromOn =>
    /\ Cardinality(Pulses) <= 2
    /\ PollExhausted
    /\ \A i \in Rets("sim_power_dowm") :
         log[i].n = ERROR_POWER_STATE =>
           /\ Calls("sim_power_up") = {}
           /\ pc = "done" => ret = ERROR_POWER_STATE
    /\ \A i \in Rets("sim_power_up") :
         log[i].n = ERROR_POWER_STATE => pc = "done" /\ ret = ERROR_POWER_STATE

\* C15 as amended: a reset issues at most two pulses and enters each power helper
\* at most once.  From ON, after the power-down the status line is read once
\* more: when it reads OFF the power-up pulse follows, whatever the power-down
\* returned, and when it does not the call returns the result of the power-down
\* (ERROR_POWER_STATE when its poll never read OFF) and no power-up pulse is
\* issued.  The result of a power-up is the result of the call, ERROR_POWER_STATE
\* when its poll never read ON.
C15_ResetPowerUpFollowsRecheck ==
  ResetFromOn =>
    /\ Cardinality(Pulses) <= 2
    /\ Cardinality(Calls("sim_power_up")) <= 1
    /\ Cardinality(Calls("sim_power_dowm")) <= 1
    /\ PollExhausted
    /\ \A i \in Rets("sim_power_dowm") :
         /\ Calls("sim_power_up") # {} => log[i + 1] = StateRead(OFF)
         /\ (i < Len(log) /\ log[i + 1] # StateRead(OFF)) =>
              /\ Calls("sim_power_up") = {}
              /\ pc = "done"
              /\ ret = log[i].n
    /\ \A i \in Rets("sim_power_up") :
         i = Len(log) /\ pc = "done" /\ ret = log[i].n

\* the power-down poll never read OFF and neither did the read after it: the
\* reset ended with ERROR_POWER_STATE after a single pulse
C15_Witness ==
  /\ ResetFromOn
  /\ pc = "done"
  /\ \E i \in Rets("sim_power_dowm") :
       log[i].n = ERROR_POWER_STATE /\ log[i + 1] = StateRead(ON)
  /\ Cardinality(Pulses) = 1
  /\ ret = ERROR_POWER_STATE


---------------------------------------------------------------------------
(* parse_reply on its own: every short buffer, every field index.          *)

MaxBody == 4
MaxIndex == 2

T_TOK == <<"+", "T", ":", " ">>

\* what may follow the token: digits and dividers
BodyChars == {"1", "7", ","}

Bodies == UNION {[1..n -> BodyChars] : n \in 0..MaxBody}

\* the buffers parse_reply is given: with the token, and without it
ParseBuffers == {T_TOK \o b : b \in Bodies} \cup Bodies

\* parse_reply(T_TOK, &v, ',', index) is entered with buf in g_sim_buffer
ParseCall(buf, index) == [k |-> "call", at |-> "parse_reply", n |-> index, r |-> buf]

\* lines 2281-2323.  atoi(NULL), when strtok finds no token, is undefined: the call
\* faults, or returns with *v left alone or zero.
parse_reply_call ==
  /\ Idle
  /\ \E index \in 0..MaxIndex, old \in {0, 7} :
       LET pr == parse_reply(g_sim_buffer, T_TOK, old, ",", index) IN
       /\ log' = <<ParseCall(g_sim_buffer, index)>>
       /\ g_sim_buffer' = pr.buf
       /\ IF pr.ub
          THEN \/ pc' = "fault" /\ ret' = NO_ERROR /\ loc' = Loc0
               \/ \E v \in {0, old} :
                    /\ loc' = [Loc0 EXCEPT !.status = v]
                    /\ Return(NO_ERROR)
          ELSE /\ loc' = [Loc0 EXCEPT !.status = pr.v]
               /\ Return(pr.err)
  /\ UNCHANGED <<g_http_buffer, g_http_status_code, json_structure, GnssGlobals, sim_rx>>

InitParse ==
  /\ pc = "idle"
  /\ log = <<>>
  /\ ret = NO_ERROR
  /\ loc = Loc0
  /\ g_sim_buffer \in ParseBuffers
  /\ g_http_buffer = <<>>
  /\ g_http_status_code = 0
  /\ g_gnss_buffer = <<>>
  /\ gs_gnss_data_time = GNSS_Data_Time0
  /\ g_gnss_is_data_fixed = 0
  /\ sim_rx = <<>>
  /\ json_structure = 0

NextParse ==
  \/ parse_reply_call
  \/ caller_continues

SpecParse == InitParse /\ [][NextParse]_vars

\* the reference parser: the text after the first occurrence of the token, cut at
\* the commas into fields 0, 1, ...; field k is there when at least k commas follow
RefText(buf) == From(buf, strstr(buf, T_TOK) + Len(T_TOK))

RefCommas(s) == {i \in 1..Len(s) : s[i] = ","}

\* the position of the k-th comma of s, k >= 1
RefComma(s, k) ==
  CHOOSE c \in RefCommas(s) : Cardinality({d \in RefCommas(s) : d <= c}) = k

RefField(s, k) ==
  LET lo == IF k = 0 THEN 1 ELSE RefComma(s, k) + 1
      hi == IF Cardinality(RefCommas(s)) > k THEN RefComma(s, k + 1) - 1 ELSE Len(s)
  IN  SubSeq(s, lo, hi)

RefParse(buf, k) ==
  IF strstr(buf, T_TOK) = 0 \/ Cardinality(RefCommas(RefText(buf))) < k
  THEN [err |-> ERROR_REPLY, v |-> 0]
  ELSE [err |-> NO_ERROR, v |-> atoi(RefField(RefText(buf), k))]

\* C17: parse_reply agrees with the reference parser for every buffer and every
\* field index k: it returns ERROR_REPLY when the token is absent or fewer than k
\* dividers follow it, and otherwise returns NO_ERROR with the output set to the
\* integer value of the k-th comma-separated field after the token.
C17_AgreesWithReference ==
  (Len(log) = 1 /\ log[1].at = "parse_reply") =>
    /\ pc = "done"
    /\ ret = RefParse(log[1].r, log[1].n).err
    /\ ret = NO_ERROR => loc.status = RefParse(log[1].r, log[1].n).v


---------------------------------------------------------------------------
(* read_line.  The serial input of a call is a sequence of bytes in which  *)
(* GAP marks a poll that finds no data available; after the last element   *)
(* no more data arrives.  g_sim_buffer is an array of REPLY_BUFFER_LENGTH  *)
(* cells, reply_idx a uint8_t.                                             *)

REPLY_BUFFER_LENGTH == 255
SINGLE_LINE == 0
MULTILINE == 1

CR == "\r"
LF == "\n"
NUL == "NUL"
GAP == "GAP"
\* a cell beyond the terminator of the previous reply: whatever was there before
STALE == "STALE"

MaxStream == 4

\* time_out values of the short inputs
Timeouts == {0, 1, 2}

StreamChars == {"a", CR, LF, GAP}

ShortStreams == UNION {[1..n -> StreamChars] : n \in 0..MaxStream}

\* a line of n content bytes, its line feed, and the start of the next line
LongLine(n) == [i \in 1..n |-> "a"] \o <<LF, "b", LF>>

LongStreams == {LongLine(n) : n \in {REPLY_BUFFER_LENGTH - 1, REPLY_BUFFER_LENGTH,
                                     REPLY_BUFFER_LENGTH + 1}}

\* cell i of the array g_sim_buffer that holds the C string str
OldCell(str, i) ==
  IF i < Len(str) THEN str[i + 1] ELSE IF i = Len(str) THEN NUL ELSE STALE

\* the bytes at the head of s that line 2149 stores one after the other: those
\* before the first carriage return, line feed or gap
ContentRun(s) ==
  LET stops == {i \in 1..Len(s) : s[i] \in {CR, LF, GAP}}
  IN  IF stops = {} THEN s
      ELSE SubSeq(s, 1, (CHOOSE i \in stops : \A j \in stops : i <= j) - 1)

RECURSIVE read_line_loop(_, _, _)
\* lines 2108-2159, from inside the inner loop: st.t is time_out after the
\* decrement of line 2108, s the input not yet read, st.stored the bytes stored by
\* line 2149 in order (the j-th of them at index j % 256), st.idx is reply_idx
read_line_loop(s, lines, st) ==
  IF s = <<>> \/ Head(s) = GAP
  THEN \* line 2115 finds no data: lines 2153-2158, then line 2108 again
       LET rest == IF s = <<>> THEN s ELSE Tail(s) IN
       IF st.t = 0
       THEN [st EXCEPT !.rest = rest]
       ELSE read_line_loop(rest, lines,
                           [st EXCEPT !.t = st.t - 1, !.delays = st.delays + 1])
  ELSE IF Head(s) = CR
  THEN read_line_loop(Tail(s), lines, st)
  ELSE IF Head(s) = LF /\ st.idx = 0
  THEN read_line_loop(Tail(s), lines, st)
  ELSE IF Head(s) = LF /\ lines = SINGLE_LINE
  THEN [st EXCEPT !.rest = Tail(s), !.t = 0]
  ELSE \* lines 2149-2150, for a line feed of a multi-line read or for each byte
       \* of a run of content
       LET run  == IF Head(s) = LF THEN <<LF>> ELSE ContentRun(s)
           last == st.idx + Len(run) - 1
       IN  read_line_loop(SubSeq(s, Len(run) + 1, Len(s)), lines,
             [st EXCEPT !.stored = st.stored \o run,
                        !.top = IF last >= Uint8 THEN Uint8 - 1
                                ELSE IF last > st.top THEN last ELSE st.top,
                        !.idx = (st.idx + Len(run)) % Uint8])

\* read_line(time_out, lines) on the input s: the run up to line 2164, which
\* writes the terminator at reply_idx; top is the highest index written
read_line(s, time_out, lines) ==
  LET st0 == [idx |-> 0, t |-> 0, delays |-> 0, stored |-> <<>>, top |-> 0,
              rest |-> s]
      st  == IF time_out = 0 THEN st0
             ELSE read_line_loop(s, lines, [st0 EXCEPT !.t = time_out - 1])
  IN  [st EXCEPT !.top = IF st.idx > st.top THEN st.idx ELSE st.top]

\* cell i of g_sim_buffer after a run r of read_line that found old in it: the
\* terminator, or the last byte stored at i, or what was there before
NewCell(r, old, i) ==
  LET n == Len(r.stored)
      j == ((n - 1 - i) \div Uint8) * Uint8 + i
  IN  IF i = r.idx THEN NUL
      ELSE IF i < n THEN r.stored[j + 1]
      ELSE OldCell(old, i)

\* the C string in g_sim_buffer after the run r: the cells before the first NUL.
\* A terminator written at index 255 is outside the array; the string then ends
\* with the last cell of the array.
StringAfter(r, old) ==
  LET \* the terminator is at r.idx: no cell after it is part of the string
      lim  == IF r.idx < REPLY_BUFFER_LENGTH THEN r.idx ELSE REPLY_BUFFER_LENGTH - 1
      nuls == {i \in 0..lim : NewCell(r, old, i) = NUL}
      end  == IF nuls = {} THEN REPLY_BUFFER_LENGTH
              ELSE CHOOSE i \in nuls : \A j \in nuls : i <= j
  IN  [i \in 1..end |-> NewCell(r, old, i - 1)]

\* what read_line took from the serial input, and what it left there
RxTaken(s) == [k |-> "rx", at |-> "_sim_read_buffer", n |-> 0, r |-> s]
RxLeft(s) == [k |-> "pending", at |-> "_sim_data_available", n |-> 0, r |-> s]
\* the bytes stored, in order, and the highest index written
Stored(s, n) == [k |-> "stored", at |-> "g_sim_buffer", n |-> n, r |-> s]

\* read_line is called with the serial input s ahead of it
read_line_on(s, time_out, lines) ==
  LET r == read_line(s, time_out, lines)
      taken == SubSeq(s, 1, Len(s) - Len(r.rest))
  IN  /\ Idle
      /\ ret' = NO_ERROR
      /\ loc' = [Loc0 EXCEPT !.time_out = time_out, !.lines = lines]
      /\ g_sim_buffer' = StringAfter(r, g_sim_buffer)
      /\ log' = <<Call("read_line"), RxTaken(taken), RxLeft(r.rest),
                  Stored(r.stored, r.top)>>
      /\ pc' = "done"
      /\ UNCHANGED <<g_http_buffer, g_http_status_code, json_structure,
                     GnssGlobals, sim_rx>>

read_line_short ==
  \E s \in ShortStreams, time_out \in Timeouts, lines \in {SINGLE_LINE, MULTILINE} :
    read_line_on(s, time_out, lines)

read_line_long ==
  \E s \in LongStreams, lines \in {SINGLE_LINE, MULTILINE} :
    read_line_on(s, 1, lines)

InitRead == InitCommon /\ json_structure = 0

NextRead ==
  \/ read_line_short
  \/ read_line_long
  \/ caller_continues

SpecRead == InitRead /\ [][NextRead]_vars

---------------------------------------------------------------------------
(* Claims about read_line, checked under SpecRead.                         *)

\* the input the finished call took, and the bytes it stored, in order
Taken == log[2].r
StoredBytes == log[4].r

IsContent(c) == c \notin {CR, LF, GAP}

\* the content bytes of an input
Content(s) == SelectSeq(s, IsContent)

\* C18: read_line in single-line mode discards every carriage return, skips the
\* line feeds received before the first content byte and ends the capture at the
\* first line feed that follows a content byte: the string it leaves holds no CR
\* and no LF, it is the content of the input taken, and no byte after such a
\* line feed is taken from the serial input.
C18_SingleLineFraming ==
  (Done("read_line") /\ loc.lines = SINGLE_LINE) =>
    /\ \A i \in DOMAIN g_sim_buffer : g_sim_buffer[i] \notin {CR, LF}
    /\ g_sim_buffer = Content(Taken)
    /\ \A i \in DOMAIN Taken :
         (Taken[i] = LF /\ Content(SubSeq(Taken, 1, i - 1)) # <<>>) =>
           i = Len(Taken)

\* C19: on every exit of read_line, a timeout with partial or no input included,
\* g_sim_buffer is a null-terminated string that holds exactly the bytes stored
\* during the call, the empty string when there were none: every write of the
\* call, the terminator included, is inside the array.
C19_StringIsCapture ==
  Done("read_line") =>
    /\ g_sim_buffer = StoredBytes
    /\ log[4].n < REPLY_BUFFER_LENGTH

\* C24: every index at which a call of read_line writes into g_sim_buffer, the
\* index of the terminator included, is below the capacity of 255, whatever the
\* input and the timeout: no more bytes are stored than the array can hold with
\* its terminator.
C24_WritesBelowCapacity ==
  Done("read_line") =>
    /\ Len(StoredBytes) < REPLY_BUFFER_LENGTH
    /\ \A i \in 0..log[4].n : i < REPLY_BUFFER_LENGTH

---------------------------------------------------------------------------
(* read_line statement by statement, for inputs without end: at every test *)
(* of line 2115 the serial input has a byte pending or has none.  The      *)
(* array g_sim_buffer is kept cell by cell while the call runs and as the  *)
(* C string it holds once the terminator is written.                       *)

ArgTimeout(n) == [k |-> "arg", at |-> "time_out", n |-> n, r |-> <<>>]

\* g_sim_buffer[i] = c for an index inside the array; a write at index 255 falls
\* outside it
Store(buf, i, c) ==
  IF i >= REPLY_BUFFER_LENGTH THEN buf
  ELSE [k \in 1..(IF i + 1 > Len(buf) THEN i + 1 ELSE Len(buf)) |->
          IF k = i + 1 THEN c ELSE IF k <= Len(buf) THEN buf[k] ELSE STALE]

\* lines 2099-2102: the call, reply_idx = 0
read_line_call ==
  \E time_out \in Timeouts, lines \in {SINGLE_LINE, MULTILINE} :
    /\ Idle
    /\ pc' = "rl_while"
    /\ ret' = NO_ERROR
    /\ log' = <<Call("read_line"), ArgTimeout(time_out)>>
    /\ loc' = [Loc0 EXCEPT !.time_out = time_out, !.lines = lines]
    /\ UNCHANGED <<g_sim_buffer, HttpGlobals, GnssGlobals, sim_rx>>

\* lines 2108-2113: the test and decrement of time_out, the test of reply_idx
read_line_while ==
  /\ pc = "rl_while"
  /\ IF loc.time_out = 0
     THEN pc' = "rl_end" /\ loc' = [loc EXCEPT !.time_out = Uint16 - 1]
     ELSE /\ loc' = [loc EXCEPT !.time_out = @ - 1]
          /\ pc' = IF loc.reply_idx > REPLY_BUFFER_LENGTH THEN "rl_end"
                   ELSE "rl_data"
  /\ UNCHANGED <<log, ret, g_sim_buffer, HttpGlobals, GnssGlobals, sim_rx>>

\* lines 2115-2151 for one byte c that is pending
read_line_byte(c) ==
  /\ pc = "rl_data"
  /\ IF c = CR \/ (c = LF /\ loc.reply_idx = 0)
     THEN UNCHANGED <<pc, loc, g_sim_buffer>>
     ELSE IF c = LF /\ loc.lines = SINGLE_LINE
     THEN \* lines 2141-2142, then the break of line 2155
          /\ loc' = [loc EXCEPT !.time_out = 0]
          /\ pc' = "rl_end"
          /\ UNCHANGED g_sim_buffer
     ELSE /\ g_sim_buffer' = Store(g_sim_buffer, loc.reply_idx, c)
          /\ loc' = [loc EXCEPT !.reply_idx = (@ + 1) % Uint8]
          /\ UNCHANGED pc
  /\ UNCHANGED <<log, ret, HttpGlobals, GnssGlobals, sim_rx>>

\* the bytes of an input without end: content and carriage returns, and the line
\* feed that ends a single-line read
read_line_data ==
  \E c \in {"a", CR, LF} :
    /\ c = LF => loc.lines = SINGLE_LINE
    /\ read_line_byte(c)

\* line 2115 finds no byte pending: lines 2153-2158
read_line_no_data ==
  /\ pc = "rl_data"
  /\ IF loc.time_out = 0
     THEN pc' = "rl_end" /\ UNCHANGED loc
     ELSE pc' = "rl_while" /\ loc' = [loc EXCEPT !.delays = @ + 1]
  /\ UNCHANGED <<log, ret, g_sim_buffer, HttpGlobals, GnssGlobals, sim_rx>>

\* line 2164: the terminator; g_sim_buffer is the string in front of it
read_line_end ==
  /\ pc = "rl_end"
  /\ pc' = "done"
  /\ g_sim_buffer' =
       SubSeq(g_sim_buffer, 1,
              IF loc.reply_idx < Len(g_sim_buffer) THEN loc.reply_idx
              ELSE Len(g_sim_buffer))
  /\ UNCHANGED <<log, ret, loc, HttpGlobals, GnssGlobals, sim_rx>>

read_line_step ==
  \/ read_line_while
  \/ read_line_data
  \/ read_line_no_data
  \/ read_line_end

InitReadLive == InitCommon /\ json_structure = 0

NextReadLive ==
  \/ read_line_call
  \/ read_line_step

\* the processor goes on executing the call
SpecReadLive == InitReadLive /\ [][NextReadLive]_vars /\ WF_vars(read_line_step)

InReadLine == InCall("read_line") /\ pc # "done"

\* C25: a call read_line(T, ..) returns, whatever the serial input does, and by
\* then the delay of 1 ms has been invoked at most T times.
C25_ReturnsWithinTicks ==
  /\ [](InCall("read_line") => loc.delays <= log[2].n)
  /\ (InReadLine ~> (pc = "done"))

---------------------------------------------------------------------------
(* SIM868_gnss_get_data.  g_gnss_buffer holds the sentence from the 'C' of *)
(* RMC on, as gnss_read_data left it; the function cuts it at the commas   *)
(* with strtok, converts the time to UTC-6 and rolls the date back.  The   *)
(* position, speed and the three out-parameters are left out of the state. *)

RECURSIVE SkipDelims(_, _)
\* strtok: the first index from i on that holds no delimiter
SkipDelims(buf, i) ==
  IF i <= Len(buf) /\ buf[i] = "," THEN SkipDelims(buf, i + 1) ELSE i

RECURSIVE TokenEnd(_, _)
\* strtok: the first index from i on that holds a delimiter or ends the string
TokenEnd(buf, i) ==
  IF i <= Len(buf) /\ buf[i] \notin {",", NUL} THEN TokenEnd(buf, i + 1) ELSE i

\* strtok(.., delimiter) on the array buf with the saved position from: the token
\* found, the array with the comma that ended it overwritten, the new position
NextToken(buf, from) ==
  LET start == SkipDelims(buf, from)
      stop  == TokenEnd(buf, start)
      cut   == stop <= Len(buf) /\ buf[stop] = ","
  IN  IF stop = start
      THEN [found |-> FALSE, tok |-> <<>>, buf |-> buf, save |-> start]
      ELSE [found |-> TRUE, tok |-> SubSeq(buf, start, stop - 1),
            buf |-> IF cut THEN [buf EXCEPT ![stop] = NUL] ELSE buf,
            save |-> IF cut THEN stop + 1 ELSE stop]

RECURSIVE TakeTokens(_, _, _)
\* up to n calls of strtok in a row, ended by the first that returns NULL
TakeTokens(buf, from, n) ==
  LET t == NextToken(buf, from)
  IN  IF n = 0 THEN [toks |-> <<>>, buf |-> buf, save |-> from]
      ELSE IF ~t.found THEN [toks |-> <<>>, buf |-> buf, save |-> t.save]
      ELSE LET r == TakeTokens(t.buf, t.save, n - 1)
           IN  [toks |-> <<t.tok>> \o r.toks, buf |-> r.buf, save |-> r.save]

\* the bytes a conversion may find in memory behind an array of two characters
\* that has no terminator: a byte that is no digit, or a digit
Trailing == {<<>>, <<"9">>}

\* lines 1131-1133 and 1303-1305: (uint8_t)atoi(a) of char a[2] holding the
\* characters i and i+1 of the text,
\* followed in memory by the bytes after
Field(text, i, after) == atoi(<<text[i], text[i + 1]>> \o after) % Uint8

g_utc_hours == <<0, 1, 2, 3, 4, 5>>
g_fix_hours == <<18, 19, 20, 21, 22, 23>>
g_last_day_month == <<0, 31, 28, 31, 30, 31, 30, 31, 31, 30, 31, 30, 31>>

\* lines 1138-1148: the hour is advanced when the minutes read 59
HourAdvanced(hour, minutes) ==
  IF minutes = 59 THEN (IF hour < 23 THEN hour + 1 ELSE 0) ELSE hour

RECURSIVE FixHours(_, _)
\* the loop of lines 1164-1170 from index i on
FixHours(hour, i) ==
  IF i >= 6 THEN hour
  ELSE FixHours(IF hour = g_utc_hours[i + 1] THEN g_fix_hours[i + 1] ELSE hour, i + 1)

\* lines 1153-1171: the hour at UTC-6 and whether the date is a day ahead
AdjustHour(hour) ==
  IF hour >= 6 THEN [hour |-> hour - 6, one_more_day |-> FALSE]
  ELSE [hour |-> FixHours(hour, 0), one_more_day |-> TRUE]

RECURSIVE LastDay(_, _, _)
\* the loop of lines 1335-1341 from index i on
LastDay(day, month, i) ==
  IF i >= 13 THEN day
  ELSE LastDay(IF month = i THEN g_last_day_month[i + 1] ELSE day, month, i + 1)

\* lines 1310-1347: one day is subtracted from the date
DayBefore(d) ==
  IF d.day = 1
  THEN LET m == IF d.month > 1 THEN d.month - 1 ELSE 12
           y == IF d.month > 1 THEN d.year ELSE (d.year + Uint8 - 1) % Uint8
       IN  [d EXCEPT !.month = m, !.year = y, !.day = LastDay(d.day, m, 0)]
  ELSE [d EXCEPT !.day = (d.day + Uint8 - 1) % Uint8]

\* what the caller reads as the result of a call that ends without a return
IndeterminateResult == {0, 1}

\* lines 1067-1171: the output mode is skipped, the time is taken and converted
SIM868_gnss_get_data_time ==
  /\ Enter("SIM868_gnss_get_data")
  /\ LET r == TakeTokens(g_gnss_buffer, 1, 2)
     IN  /\ g_gnss_buffer' = r.buf
         /\ IF Len(r.toks) < 2
            THEN /\ pc' = "done"
                 /\ loc' = [Loc0 EXCEPT !.before = gs_gnss_data_time]
                 /\ UNCHANGED gs_gnss_data_time
            ELSE \E as, am, ah \in Trailing :
                   LET seconds == Field(r.toks[2], 5, as)
                       minutes == Field(r.toks[2], 3, am)
                       hour    == Field(r.toks[2], 1, ah)
                       adj     == AdjustHour(HourAdvanced(hour, minutes))
                   IN  /\ gs_gnss_data_time' =
                            [gs_gnss_data_time EXCEPT !.seconds = seconds,
                               !.minutes = minutes, !.hour = adj.hour]
                       /\ loc' = [Loc0 EXCEPT !.time = r.toks[2],
                                    !.one_more_day = adj.one_more_day,
                                    !.save = r.save,
                                    !.before = gs_gnss_data_time]
                       /\ pc' = "gnss_fix"
  /\ UNCHANGED <<g_sim_buffer, HttpGlobals, g_gnss_is_data_fixed, sim_rx>>

\* lines 1176-1348: the fix identifier, the position, the speed and the track
\* angle are taken, then the date; atof(NULL) for a missing speed is undefined
SIM868_gnss_get_data_date ==
  /\ pc = "gnss_fix"
  /\ LET r == TakeTokens(g_gnss_buffer, loc.save, 8)
         n == Len(r.toks)
     IN  /\ g_gnss_buffer' = r.buf
         /\ IF n < 8
            THEN /\ \/ pc' = "done"
                    \/ n = 5 /\ pc' = "fault"
                 /\ UNCHANGED <<ret, gs_gnss_data_time>>
                 /\ loc' = [loc EXCEPT !.save = r.save]
            ELSE \E ad, am, ay \in Trailing : \E e \in IndeterminateResult :
                   LET d == [gs_gnss_data_time EXCEPT
                               !.day = Field(r.toks[8], 1, ad),
                               !.month = Field(r.toks[8], 3, am),
                               !.year = Field(r.toks[8], 5, ay)]
                   IN  /\ gs_gnss_data_time' =
                            IF loc.one_more_day THEN DayBefore(d) ELSE d
                       /\ loc' = [loc EXCEPT !.save = r.save, !.date = r.toks[8]]
                       /\ Return(e)
  /\ UNCHANGED <<log, g_sim_buffer, HttpGlobals, g_gnss_is_data_fixed, sim_rx>>

TwoDigits(n) == <<Digits[(n \div 10) + 1], Digits[(n % 10) + 1]>>

\* hhmmss.sss
TimeText(h, m, s) ==
  TwoDigits(h) \o TwoDigits(m) \o TwoDigits(s) \o <<".", "0", "0", "0">>

DatesIn == {<<"0", "1", "0", "3", "2", "4">>}

\* C,time,validity,latitude,N,longitude,W,speed,track,date
Sentence(time, date) ==
  <<"C", ",">> \o time \o
  <<",", "A", ",", "1", ",", "N", ",", "2", ",", "W", ",", "3", ",", "4", ",">> \o date

\* every hour and minute of the day, and the last second of four of them
TimesIn ==
  {TimeText(h, m, 0) : h \in 0..23, m \in 0..59}
    \cup {TimeText(h, m, 59) : h \in {0, 23}, m \in {0, 59}}

Sentences == {Sentence(t, d) : t \in TimesIn, d \in DatesIn}

\* sentences cut short by a carriage return that came early: before the time,
\* or after it and before the date
ShortSentences ==
  LET full == Sentence(TimeText(5, 59, 0), <<"0", "1", "0", "1", "0", "0">>)
  IN  {SubSeq(full, 1, n) : n \in (0..2) \cup (12..(Len(full) - 6))}

InitTime ==
  /\ pc = "idle"
  /\ log = <<>>
  /\ ret = NO_ERROR
  /\ loc = Loc0
  /\ g_sim_buffer = <<>>
  /\ g_http_buffer = <<>>
  /\ g_http_status_code = 0
  /\ json_structure = 0
  /\ g_gnss_buffer \in Sentences \cup ShortSentences
  /\ gs_gnss_data_time = GNSS_Data_Time0
  /\ g_gnss_is_data_fixed = 0
  /\ sim_rx = <<>>

NextTime ==
  \/ SIM868_gnss_get_data_time
  \/ SIM868_gnss_get_data_date
  \/ caller_continues

SpecTime == InitTime /\ [][NextTime]_vars

\* the time of the sentence has been taken and converted in the current call
TimeTaken == InCall("SIM868_gnss_get_data") /\ Len(loc.time) >= 6

\* the two digits at index i of the time text of the sentence, as a number
TimeIn(i) == 10 * DigitVal(loc.time[i]) + DigitVal(loc.time[i + 1])

\* C20: for a sentence whose time reads hour h in 0..23, minute m in 0..59 and
\* second s, the conversion to UTC-6 first advances the hour to h' = (h + 1) mod 24
\* when m = 59, then stores h' - 6 when h' >= 6 and h' + 18 with the date rolled
\* back by a day when h' < 6; the stored minutes and seconds are m and s, and the
\* stored hour is in 0..23.
C20_UtcMinus6 ==
  (TimeTaken /\ TimeIn(1) \in 0..23 /\ TimeIn(3) \in 0..59) =>
    LET h1 == IF TimeIn(3) = 59 THEN (TimeIn(1) + 1) % 24 ELSE TimeIn(1)
    IN  /\ gs_gnss_data_time.hour = IF h1 >= 6 THEN h1 - 6 ELSE h1 + 18
        /\ loc.one_more_day = (h1 < 6)
        /\ gs_gnss_data_time.minutes = TimeIn(3)
        /\ gs_gnss_data_time.seconds = TimeIn(5)
        /\ gs_gnss_data_time.hour \in 0..23

\* the current call returned false for a token missing behind the time
AbortedAfterTime ==
  Done("SIM868_gnss_get_data") /\ Len(loc.time) >= 6 /\ loc.date = <<>>

\* C23: a call of SIM868_gnss_get_data that takes the time of the sentence and then
\* returns false, because the fix identifier, the position, a hemisphere, the track
\* angle or the date is missing, leaves the stored seconds, minutes, hour, day,
\* month and year as they were before the call.
C23_AbortKeepsDateTime ==
  AbortedAfterTime => gs_gnss_data_time = loc.before

---------------------------------------------------------------------------
(* The date of SIM868_gnss_get_data: few times of day, every month.        *)

DaysIn == {1, 2, 15, 31}
YearsIn == {0, 24, 99}

\* ddmmyy
DateText(d, m, y) == TwoDigits(d) \o TwoDigits(m) \o TwoDigits(y)

\* times on both sides of the rollback, with and without the advance of the hour
DateTimesIn ==
  {TimeText(0, 0, 0), TimeText(5, 59, 0), TimeText(12, 0, 0), TimeText(23, 59, 0)}

DateSentences ==
  {Sentence(t, DateText(d, m, y)) :
     t \in DateTimesIn, d \in DaysIn, m \in 1..12, y \in YearsIn}

InitDate ==
  /\ pc = "idle"
  /\ log = <<>>
  /\ ret = NO_ERROR
  /\ loc = Loc0
  /\ g_sim_buffer = <<>>
  /\ g_http_buffer = <<>>
  /\ g_http_status_code = 0
  /\ json_structure = 0
  /\ g_gnss_buffer \in DateSentences
  /\ gs_gnss_data_time = GNSS_Data_Time0
  /\ g_gnss_is_data_fixed = 0
  /\ sim_rx = <<>>

SpecDate == InitDate /\ [][NextTime]_vars

\* the date of the sentence has been taken and stored in the current call
DateTaken == Done("SIM868_gnss_get_data") /\ Len(loc.date) >= 6

\* the two digits at index i of the date text of the sentence, as a number
DateIn(i) == 10 * DigitVal(loc.date[i]) + DigitVal(loc.date[i + 1])

\* the lengths of the months January to December the claim names
MonthLengths == <<31, 28, 31, 30, 31, 30, 31, 31, 30, 31, 30, 31>>

\* C21: when the hour at UTC-6 came from an hour below 6, the stored date is the
\* day before the date of the sentence: a day above 1 is decremented with month and
\* year as received; day 1 becomes the last day, by the fixed table with February
\* 28, of the previous month, January going to December of the previous year.
\* Without rollback the date is stored as received.
C21_DateRollback ==
  DateTaken =>
    LET d == DateIn(1)
        m == DateIn(3)
        y == DateIn(5)
        pm == IF m > 1 THEN m - 1 ELSE 12
        got == <<gs_gnss_data_time.day, gs_gnss_data_time.month,
                 gs_gnss_data_time.year>>
    IN  IF ~loc.one_more_day THEN got = <<d, m, y>>
        ELSE IF d > 1 THEN got = <<d - 1, m, y>>
        ELSE IF m > 1 THEN got = <<MonthLengths[pm], pm, y>>
        ELSE got[1] = 31 /\ got[2] = 12 /\ (y > 0 => got[3] = y - 1)

---------------------------------------------------------------------------
(* gnss_read_data and SIM868_gnss_get_fix_status.  The GNSS serial input   *)
(* of a call is the sequence of bytes that arrives after the receive       *)
(* buffer was cleared at line 2354; when it ends before the scan does, the *)
(* loop of line 2360 goes on for ever.                                     *)

FIX_COUNT == 30

RECURSIVE FirstIn(_, _, _, _)
\* the first index in lo..hi at which s holds a byte of the set cs, 0 when there
\* is none; the range is halved so that long inputs need no deep recursion
FirstIn(s, lo, hi, cs) ==
  IF lo > hi THEN 0
  ELSE IF lo = hi THEN (IF s[lo] \in cs THEN lo ELSE 0)
  ELSE LET mid  == (lo + hi) \div 2
           left == FirstIn(s, lo, mid, cs)
       IN  IF left # 0 THEN left ELSE FirstIn(s, mid + 1, hi, cs)

\* the first index from i on at which s holds a byte of the set cs, Len(s) + 1
\* when there is none
FirstOf(s, i, cs) ==
  IF i > Len(s) THEN i
  ELSE LET k == FirstIn(s, i, Len(s), cs) IN IF k = 0 THEN Len(s) + 1 ELSE k

\* lines 2369-2394: the index of the byte that sets gnrmcC, a 'C' that comes
\* after an 'M' that comes after an 'R'
SentenceStart(s) ==
  FirstOf(s, FirstOf(s, FirstOf(s, 1, {"R"}) + 1, {"M"}) + 1, {"C"})

\* line 2431 for the bytes of stored in turn, gnss_idx starting at 0 and wrapping
\* as a uint8_t: the array as the sequence of its cells written so far (the cells
\* behind them hold the zeros of static storage); index 255 is outside the array
CellsAfter(buf, stored) ==
  LET n    == Len(stored)
      used == IF n > REPLY_BUFFER_LENGTH THEN REPLY_BUFFER_LENGTH ELSE n
      last(k) == k + Uint8 * ((n - k) \div Uint8)
  IN  [k \in 1..(IF used > Len(buf) THEN used ELSE Len(buf)) |->
         IF k <= n THEN stored[last(k)] ELSE buf[k]]

\* lines 2360-2434 on the input s, with the array buf and the fix flag fixed
\* before the call: the bytes stored in order, the array and the flag after,
\* the highest index written, whether a break was taken, the input not read
gnss_scan(s, buf, fixed) ==
  LET start  == SentenceStart(s)
      stop   == FirstOf(s, start, {CR, "V"})
      ended  == stop <= Len(s)
      stored == SubSeq(s, start, stop - 1)
      marks  == Cardinality({i \in DOMAIN stored : stored[i] = "A"})
  IN  [stored |-> stored,
       buf    |-> CellsAfter(buf, stored),
       top    |-> (IF Len(stored) > Uint8 THEN Uint8 ELSE Len(stored)) - 1,
       fixed  |-> IF ended /\ s[stop] = "V" THEN 0
                  ELSE IF marks > FIX_COUNT THEN 1 ELSE fixed,
       ended  |-> ended,
       rest   |-> SubSeq(s, stop + 1, Len(s))]

GnssTaken(s) == [k |-> "rx", at |-> "_gnss_read_buffer", n |-> 0, r |-> s]
GnssStored(s, n) == [k |-> "stored", at |-> "g_gnss_buffer", n |-> n, r |-> s]

\* SIM868_gnss_get_fix_status is called and the GNSS input s arrives
SIM868_gnss_get_fix_status_on(s) ==
  LET r == gnss_scan(s, g_gnss_buffer, g_gnss_is_data_fixed)
      taken == SubSeq(s, 1, Len(s) - Len(r.rest))
  IN  /\ Idle
      /\ log' = <<Call("SIM868_gnss_get_fix_status"), GnssTaken(taken),
                  GnssStored(r.stored, r.top)>>
      /\ g_gnss_buffer' = r.buf
      /\ g_gnss_is_data_fixed' = r.fixed
      /\ loc' = Loc0
      /\ IF r.ended THEN pc' = "done" /\ ret' = r.fixed
         ELSE pc' = "gnss_wait" /\ ret' = NO_ERROR
      /\ UNCHANGED <<g_sim_buffer, HttpGlobals, gs_gnss_data_time, sim_rx>>

Fill(n, c) == [i \in 1..n |-> c]

\* the bytes up to the 'C' of RMC: adjacent, after a talker id, spread, and out
\* of order
FixHeads ==
  {<<"R", "M", "C">>, <<"$", "G", "N", "R", "M", "C">>,
   <<"R", "x", "M", "x", "C">>, <<"M", "C", "R">>}

PadLens == {10, 27, 28}

\* head, a first field of n bytes, the validity marker v, a hemisphere, the end
FixStream(h, n, v, end) ==
  h \o <<",">> \o Fill(n, "1") \o <<",", v, ",", "N">> \o end

FixStreams ==
  {FixStream(h, n, v, end) :
     h \in FixHeads, n \in PadLens, v \in {"A", "V"}, end \in {<<CR>>, <<>>}}

\* sentences that hold a run of k bytes 'A'
RunStreams == {<<"R", "M", "C">> \o Fill(k, "A") \o <<CR>> : k \in {30, 31, 32}}

\* sentences that fill the array to its last cell, and one byte more
FullStreams ==
  {<<"R", "M", "C">> \o Fill(k, "1") \o <<CR>> :
     k \in {REPLY_BUFFER_LENGTH - 1, REPLY_BUFFER_LENGTH}}

SIM868_gnss_get_fix_status ==
  \E s \in FixStreams \cup RunStreams \cup FullStreams :
    SIM868_gnss_get_fix_status_on(s)

InitFix == InitCommon /\ json_structure = 0

NextFix ==
  \/ SIM868_gnss_get_fix_status
  \/ caller_continues

SpecFix == InitFix /\ [][NextFix]_vars

GnssInput == log[2].r
GnssBytes == log[3].r

\* C22: a call of SIM868_gnss_get_fix_status that ends on a 'V' after RMC leaves
\* the fix flag false and returns it; a call that ends on a carriage return and
\* met an 'A' when 30 bytes of the sentence had been buffered leaves the fix flag
\* true and returns it.
C22_FixFlag ==
  Done("SIM868_gnss_get_fix_status") =>
    /\ GnssInput[Len(GnssInput)] = "V" =>
         g_gnss_is_data_fixed = 0 /\ ret = 0
    /\ (GnssInput[Len(GnssInput)] = CR /\ Len(GnssBytes) > FIX_COUNT
          /\ GnssBytes[FIX_COUNT + 1] = "A") =>
         g_gnss_is_data_fixed = 1 /\ ret = 1

---------------------------------------------------------------------------
(* get_reply statement by statement.  sim_rx is the receive buffer of the  *)
(* UART: the modem's bytes arrive in it on their own.  The bytes are told  *)
(* apart by the time of their arrival: "p" was pending when get_reply was  *)
(* called, "q" arrived after line 2203 and before the command was written, *)
(* "r" arrives after it.                                                   *)

MaxLate == 2

CRLF == <<CR, LF>>
Commands == {<<"A", "T">>, <<"A", "T", "E", "0">>}

Discard(rx) == [k |-> "clear", at |-> "_sim_clear_buffer", n |-> 0, r |-> rx]
Write(text) == [k |-> "write", at |-> "_sim_send_data", n |-> 0, r |-> text]
ReadLine(taken) == [k |-> "read", at |-> "read_line", n |-> 0, r |-> taken]

\* what the receive buffer holds before a call: nothing, or the rest of a reply
PendingIn == {<<>>, <<"p">>, <<"p", LF>>, <<LF, "p", LF>>}

\* what arrives once the command is written
ReplyIn == UNION {[1..n -> {"r", CR, LF, GAP}] : n \in 0..3}

\* a slip of line 2203: the receive buffer is left as it is
Cleared_kept(rx) == rx

\* line 2203: SIM868_ClearRxBuffer
Cleared(rx) == <<>>

\* the call get_reply(at, time_out) with the bytes rx pending: what an earlier
\* call left in the receive buffer and what arrived since
get_reply_call ==
  \E at \in Commands, time_out \in Timeouts, rx \in PendingIn :
    /\ Idle
    /\ pc' = "gr_clear"
    /\ ret' = NO_ERROR
    /\ log' = <<Call("get_reply")>>
    /\ loc' = [Loc0 EXCEPT !.time_out = time_out, !.at = at]
    /\ sim_rx' = rx
    /\ UNCHANGED <<g_sim_buffer, HttpGlobals, GnssGlobals>>

\* line 2203
get_reply_clear ==
  /\ pc = "gr_clear"
  /\ pc' = "gr_send"
  /\ log' = Append(log, Discard(sim_rx))
  /\ sim_rx' = Cleared(sim_rx)
  /\ UNCHANGED <<ret, loc, g_sim_buffer, HttpGlobals, GnssGlobals>>

\* a byte of the modem arrives between line 2203 and line 2217
get_reply_arrive ==
  \E c \in {"q", LF} :
    /\ pc = "gr_send"
    /\ Len(SelectSeq(sim_rx, LAMBDA x : x \in {"q", LF})) < MaxLate
    /\ sim_rx' = Append(sim_rx, c)
    /\ UNCHANGED <<pc, log, ret, loc, g_sim_buffer, HttpGlobals, GnssGlobals>>

\* line 2217: the command is written
get_reply_send ==
  /\ pc = "gr_send"
  /\ pc' = "gr_crlf"
  /\ log' = Append(log, Write(loc.at))
  /\ UNCHANGED <<ret, loc, g_sim_buffer, HttpGlobals, GnssGlobals, sim_rx>>

\* line 2218
get_reply_crlf ==
  /\ pc = "gr_crlf"
  /\ pc' = "gr_read"
  /\ log' = Append(log, Write(CRLF))
  /\ UNCHANGED <<ret, loc, g_sim_buffer, HttpGlobals, GnssGlobals, sim_rx>>

\* line 2223: read_line(time_out, SINGLE_LINE) on what is pending and what the
\* modem sends from now on
get_reply_read ==
  \E s \in ReplyIn :
    LET in    == sim_rx \o s
        r     == read_line(in, loc.time_out, SINGLE_LINE)
        taken == SubSeq(in, 1, Len(in) - Len(r.rest))
    IN  /\ pc = "gr_read"
        /\ pc' = "done"
        /\ g_sim_buffer' = StringAfter(r, g_sim_buffer)
        /\ sim_rx' = r.rest
        /\ log' = Append(log, ReadLine(taken))
        /\ UNCHANGED <<ret, loc, HttpGlobals, GnssGlobals>>

InitReply == InitCommon /\ json_structure = 0

NextReply ==
  \/ get_reply_call
  \/ get_reply_clear
  \/ get_reply_arrive
  \/ get_reply_send
  \/ get_reply_crlf
  \/ get_reply_read
  \/ caller_continues

SpecReply == InitReply /\ [][NextReply]_vars

\* the steps of a finished call in the order of the code
ReplyOrder ==
  /\ Len(log) = 5
  /\ log[2].k = "clear"
  /\ log[3] = Write(loc.at)
  /\ log[4] = Write(CRLF)
  /\ log[5].k = "read"

Holds(str, c) == \E i \in DOMAIN str : str[i] = c

\* C26 as stated: a finished get_reply has discarded the pending input, written
\* the command, written CRLF and read one line, in this order, and the string in
\* g_sim_buffer holds no byte that was in the receive buffer before the command
\* was written.
C26_NoByteFromBeforeCommand ==
  Done("get_reply") =>
    /\ ReplyOrder
    /\ ~Holds(g_sim_buffer, "p")
    /\ ~Holds(g_sim_buffer, "q")

\* C26 amended: a finished get_reply has discarded the pending input, written the
\* command, written CRLF and read one line, in this order, and the string in
\* g_sim_buffer holds no byte that was in the receive buffer when get_reply was
\* called.
C26_NoByteFromBeforeCall ==
  Done("get_reply") =>
    /\ ReplyOrder
    /\ ~Holds(g_sim_buffer, "p")

\* a call that found bytes pending and left a reply of later bytes
C26_Witness ==
  /\ Done("get_reply")
  /\ Holds(log[2].r, "p")
  /\ Holds(g_sim_buffer, "q")
  /\ Holds(g_sim_buffer, "r")

---------------------------------------------------------------------------
(* The order of the commands of SIM868_gprs_enable.                        *)

\* the commands that open the bearer, in the order of lines 721-767
OpenSequence ==
  <<AT_SAPBR_CONTYPE, AT_SAPBR_APN, AT_SAPBR_USER, AT_SAPBR_PWD,
    "AT+SAPBR=1,1", "AT+SAPBR=2,1">>

\* the position in the trace of the bearer query of line 710, 0 before it
BearerQuery ==
  IF Sent("AT+SAPBR=2,1") = {} THEN 0 ELSE First(Sent("AT+SAPBR=2,1"))

\* connection is wanted and the bearer query of the call reported CLOSED
OpeningBearer ==
  /\ InCall("SIM868_gprs_enable")
  /\ loc.state
  /\ BearerQuery > 0
  /\ gprs_query(log[BearerQuery].r) = CLOSED

\* C27: in SIM868_gprs_enable(true) with the bearer reported CLOSED, the commands
\* sent after the bearer query are, in this order, CONTYPE, APN, USER, PWD,
\* AT+SAPBR=1,1, AT+SAPBR=2,1; each of them is sent only when every command of
\* the sequence before it was answered OK, so the open command follows four
\* configuration commands answered OK and nothing is sent after a command that
\* failed.
C27_OpenSequence ==
  OpeningBearer =>
    /\ Len(log) - BearerQuery <= Len(OpenSequence)
    /\ \A i \in 1..(Len(log) - BearerQuery) :
         /\ log[BearerQuery + i].k = "cmd"
         /\ log[BearerQuery + i].at = OpenSequence[i]
         /\ i > 1 => log[BearerQuery + i - 1].r = L_OK

\* the whole sequence was sent and the bearer confirmed
C27_Witness ==
  /\ OpeningBearer
  /\ Done("SIM868_gprs_enable")
  /\ Len(log) - BearerQuery = Len(OpenSequence)
  /\ ret = NO_ERROR

\* what the attach query of the call reported: the value parsed from its answer
AttachReported == parse_reply(log[2].r, T_CGATT, 0, ",", 0)

\* C28: the first command of every call of SIM868_gprs_enable is AT+CGATT?, and an
\* answer that cannot be parsed ends the call with ERROR_REPLY and no further
\* command; AT+CGATT=1 is sent only when connection is wanted and the query
\* reported not attached, AT+CGATT=0 only when connection is not wanted and the
\* query reported attached; an answer other than OK to either ends the call with
\* ERROR_GPRS_SERVICE.
C28_AttachDetach ==
  (InCall("SIM868_gprs_enable") /\ Len(log) > 1) =>
    /\ log[2].k = "cmd" /\ log[2].at = "AT+CGATT?"
    /\ AttachReported.err # NO_ERROR =>
         Len(log) = 2 /\ pc = "done" /\ ret = ERROR_REPLY
    /\ \A i \in Sent("AT+CGATT=1") : loc.state /\ AttachReported.v = 0
    /\ \A i \in Sent("AT+CGATT=0") : ~loc.state /\ AttachReported.v # 0
    /\ \A i \in Sent("AT+CGATT=1") \cup Sent("AT+CGATT=0") :
         log[i].r # L_OK =>
           i = Len(log) /\ pc = "done" /\ ret = ERROR_GPRS_SERVICE

\* a detach that the modem refused
C28_Witness ==
  /\ Done("SIM868_gprs_enable")
  /\ ret = ERROR_GPRS_SERVICE
  /\ \E i \in Sent("AT+CGATT=0") : log[i].r # L_OK

---------------------------------------------------------------------------
(* gsm_network_registration: the number of polls                           *)

\* lines 1787-1791, 1828: the polls of one run, the rounds of the for loop times
\* the passes of the while loop in each
RegistrationPolls == ROUNDS * (ROUND_SECONDS \div POLL_SECONDS)

\* the trace of a run is its call followed by n polls, each with its delay
RegistrationTrace(n) ==
  /\ Len(log) = 1 + 2 * n
  /\ \A i \in 1..n :
       /\ log[2 * i].k = "cmd" /\ log[2 * i].at = "AT+CREG?"
       /\ log[2 * i + 1] = Delay(15)

---------------------------------------------------------------------------
(* SIM868_init: the bound of the autobaud handshake                        *)

\* lines 423-424, 459: the rounds the two seconds allow, and the probes in them
AutobaudRounds == AUTOBAUD_TIME \div AUTOBAUD_STEP
AutobaudProbes == 2 * AutobaudRounds

\* lines 437, 453: the reply the k-th probe of a handshake is compared with
ProbeExpects(k) == IF k % 2 = 1 THEN L_OK ELSE L_AT

\* the trace of a call is its entry, n probes each behind a flush, and e ATE0
InitTrace(n, e) ==
  /\ Len(log) = 1 + 2 * n + e
  /\ \A k \in 1..n :
       /\ log[2 * k] = Flush
       /\ log[2 * k + 1].k = "cmd" /\ log[2 * k + 1].at = "AT"
  /\ \A j \in 1..e :
       /\ log[1 + 2 * n + j].k = "cmd" /\ log[1 + 2 * n + j].at = "ATE0"

\* C30: the autobaud handshake of SIM868_init is bounded.  It runs at most 4
\* rounds (2000 ms in steps of 500 ms), each probe behind a flush of the input
\* and at most two probes in a round; the loop is left at the first probe whose
\* reply is the string it expects (OK for the first probe of a round, AT for the
\* second) and otherwise when the rounds are used up; after the loop ATE0 is sent
\* exactly twice.
C30_BoundedHandshake ==
  InCall("SIM868_init") =>
    /\ AutobaudRounds = 4
    /\ \E n \in 0..AutobaudProbes, e \in 0..2 :
         /\ InitTrace(n, e)
         /\ \A k \in 1..n : log[2 * k + 1].r = ProbeExpects(k) => k = n
         /\ e > 0 => n > 0 /\ (log[2 * n + 1].r = ProbeExpects(n) \/ n = AutobaudProbes)
         /\ pc = "done" <=> e = 2

\* a call that left the loop at the second probe of its third round
C30_Witness ==
  /\ Done("SIM868_init")
  /\ Cardinality(Sent("AT")) = 6
  /\ log[13].r = L_AT
  /\ Cardinality(Sent("ATE0")) = 2

---------------------------------------------------------------------------
(* http_action: the order of its commands                                  *)

\* this step writes the command at: it is the first entry the step adds to the
\* trace
Sends(at) ==
  /\ Len(log') > Len(log)
  /\ log'[Len(log) + 1].k = "cmd"
  /\ log'[Len(log) + 1].at = at

\* this step has f return e behind the command it writes
Returns(f, e) == Len(log') > Len(log) + 1 /\ log'[Len(log) + 2] = Ret(f, e)

\* the entry before position i of the trace is the command at
Follows(i, at) == i > 1 /\ log[i - 1].k = "cmd" /\ log[i - 1].at = at

\* the trace of an http_action, as far as its commands before AT+HTTPACTION go
ActionOrder ==
  /\ \A i \in Sent(AT_HTTPDATA) :
       /\ loc.method = POST
       /\ log[i - 1] = Call("http_action")
  /\ \A i \in Sent(JSON_STRUCTURE) :
       /\ loc.method = POST
       /\ Follows(i, AT_HTTPDATA)
  /\ \A i \in Sent(AT_HTTPACTION) :
       IF loc.method = POST THEN Follows(i, JSON_STRUCTURE)
       ELSE log[i - 1] = Call("http_action")
  /\ \A i \in Sent(AT_HTTPDATA) \cup Sent(JSON_STRUCTURE) :
       i < Len(log) =>
         \/ log[i].at = AT_HTTPDATA /\ log[i + 1] = Ret("http_action", ERROR_REPLY)
         \/ log[i].at = AT_HTTPDATA /\ log[i + 1] = Tx(JSON_STRUCTURE, json_structure)
         \/ log[i].at = JSON_STRUCTURE
              /\ log[i + 1] = Ret("http_action", ERROR_JSON_STRUCTURE)
         \/ log[i].at = JSON_STRUCTURE /\ log[i + 1] = Tx(AT_HTTPACTION, POST)

\* the answers behind the order: g_sim_buffer holds the answer to the last
\* command of the trace when the next step begins
ActionAnswers ==
  /\ Sends(JSON_STRUCTURE) =>
       g_sim_buffer = L_DOWNLOAD /\ Follows(Len(log) + 1, AT_HTTPDATA)
  /\ (Sends(AT_HTTPACTION) /\ loc.method = POST) =>
       g_sim_buffer = L_OK /\ Follows(Len(log) + 1, JSON_STRUCTURE)
  /\ (Sends(AT_HTTPDATA) /\ g_sim_buffer' # L_DOWNLOAD) =>
       Returns("http_action", ERROR_REPLY)
  /\ (Sends(JSON_STRUCTURE) /\ g_sim_buffer' # L_OK) =>
       Returns("http_action", ERROR_JSON_STRUCTURE)

\* C31: the order of http_action.  For POST, AT+HTTPDATA is the first command,
\* the JSON payload is sent only after AT+HTTPDATA was answered DOWNLOAD (any
\* other answer returns ERROR_REPLY), and AT+HTTPACTION is sent only after the
\* payload was answered OK (any other answer returns ERROR_JSON_STRUCTURE); for
\* GET neither AT+HTTPDATA nor the payload is sent.
C31_ActionOrder ==
  /\ [](InCall("SIM868_http_send_request") =>
          /\ ActionOrder
          /\ loc.method = GET =>
               Sent(AT_HTTPDATA) = {} /\ Sent(JSON_STRUCTURE) = {})
  /\ [][ActionAnswers]_vars

\* a POST whose payload was refused at the first attempt and accepted at the
\* second, AT+HTTPACTION following
C31_Witness ==
  /\ InCall("SIM868_http_send_request")
  /\ loc.method = POST
  /\ \E i \in Sent(JSON_STRUCTURE) :
       i < Len(log) /\ log[i + 1] = Ret("http_action", ERROR_JSON_STRUCTURE)
  /\ \E i \in Sent(AT_HTTPACTION) : Follows(i, JSON_STRUCTURE)

---------------------------------------------------------------------------
(* http_init: the order of its commands                                    *)

\* lines 1852-1905: the commands of http_init in the order of the code
InitCommands ==
  <<"AT+HTTPTERM", "AT+HTTPINIT", AT_HTTPPARA_CID, AT_HTTPPARA_UA,
    AT_HTTPPARA_CONTENT, AT_HTTPPARA_USERDATA, AT_HTTPPARA_URL>>

InitParameters == {InitCommands[k] : k \in 3..7}

\* the http_init entered at position c has sent the first n of its commands and
\* nothing else; when it has returned, its result is the one of the command it
\* stopped at
InitOrder(c, n) ==
  /\ c + n <= Len(log)
  /\ \A k \in 1..n : log[c + k] = Tx(InitCommands[k], 0)
  /\ c + n < Len(log) =>
       /\ n >= 2
       /\ log[c + n + 1].k = "ret" /\ log[c + n + 1].at = "http_init"
       /\ log[c + n + 1].n \in
            CASE n = 2 -> {ERROR_HTTP_SERVICE}
              [] n = 7 -> {ERROR_REPLY, NO_ERROR}
              [] OTHER -> {ERROR_REPLY}

\* the answers behind the order, step by step: the answer to AT+HTTPTERM changes
\* nothing, an answer other than OK ends http_init with the error of the command
InitAnswers ==
  /\ (Sends("AT+HTTPTERM") /\ log[Len(log)] = Call("http_init")) =>
       Len(log') = Len(log) + 1 /\ pc' = "hi_init"
  /\ Sends("AT+HTTPINIT") =>
       IF g_sim_buffer' = L_OK THEN Len(log') = Len(log) + 1
       ELSE Returns("http_init", ERROR_HTTP_SERVICE)
  /\ \A at \in InitParameters :
       Sends(at) =>
         IF g_sim_buffer' # L_OK THEN Returns("http_init", ERROR_REPLY)
         ELSE IF at = AT_HTTPPARA_URL THEN Returns("http_init", NO_ERROR)
         ELSE Len(log') = Len(log) + 1

\* C32: http_init begins with AT+HTTPTERM, whose answer does not affect the
\* outcome, and then sends AT+HTTPINIT and the parameters CID, UA, CONTENT,
\* USERDATA, URL in this order; an answer other than OK to AT+HTTPINIT returns
\* ERROR_HTTP_SERVICE, one to a parameter returns ERROR_REPLY, and in both cases
\* no later command of the sequence is sent.
C32_InitOrder ==
  /\ [](InCall("SIM868_http_send_request") =>
          \A c \in Calls("http_init") : \E n \in 0..7 : InitOrder(c, n))
  /\ [][InitAnswers]_vars

\* a second http_init, after one that stopped at a parameter: its AT+HTTPTERM
\* has just been refused and AT+HTTPINIT is the next command
C32_Witness ==
  /\ InCall("SIM868_http_send_request")
  /\ \E i \in Rets("http_init") : log[i].n = ERROR_REPLY /\ log[i - 1].at # AT_HTTPPARA_URL
  /\ pc = "hi_init"
  /\ log[Len(log)] = Tx("AT+HTTPTERM", 0)
  /\ g_sim_buffer = L_ERROR

---------------------------------------------------------------------------
(* gnss_read_data byte by byte: the flags of lines 2347-2349 and the two   *)
(* counters are locals of the call; the bytes read so far are the second   *)
(* entry of the trace.                                                     *)

MaxScan == 5

\* the bytes the scan tells apart, and one it does not
ScanBytes == {"R", "M", "C", "V", "A", CR, "x"}

\* a slip of line 2382: an 'M' counts without an 'R' before it
SeesM_alone(c, gnrmcR) == c = "M"

\* line 2382
SeesM(c, gnrmcR) == c = "M" /\ gnrmcR

\* line 2431: the cell at index i is written; the cells never written hold the
\* zeros of static storage; index 255 is outside the array
GnssStore(buf, i, c) ==
  IF i >= REPLY_BUFFER_LENGTH THEN buf
  ELSE [k \in 1..(IF i + 1 > Len(buf) THEN i + 1 ELSE Len(buf)) |->
          IF k = i + 1 THEN c ELSE IF k <= Len(buf) THEN buf[k] ELSE NUL]

\* lines 2339-2354: the call; the locals are set, the receive buffer of the
\* UART is emptied, g_gnss_buffer is left as it is
gnss_read_data_call ==
  /\ Idle
  /\ pc' = "gn_loop"
  /\ ret' = NO_ERROR
  /\ log' = <<Call("gnss_read_data"), GnssTaken(<<>>)>>
  /\ loc' = Loc0
  /\ UNCHANGED <<g_sim_buffer, HttpGlobals, GnssGlobals, sim_rx>>

\* lines 2362-2432: one byte is available and read
gnss_read_data_byte ==
  \E c \in ScanBytes :
    LET gnrmcR == loc.gnrmcR \/ (~loc.gnrmcC /\ c = "R")
        gnrmcM == loc.gnrmcM \/ (~loc.gnrmcC /\ SeesM(c, gnrmcR))
        gnrmcC == loc.gnrmcC \/ (c = "C" /\ gnrmcM)
        break  == gnrmcC /\ c \in {CR, "V"}
        store  == gnrmcC /\ ~break
    IN  /\ pc = "gn_loop"
        /\ Len(log[2].r) < MaxScan
        /\ log' = [log EXCEPT ![2] = GnssTaken(Append(log[2].r, c))]
        /\ pc' = IF break THEN "done" ELSE "gn_loop"
        /\ loc' = [loc EXCEPT !.gnrmcR = gnrmcR, !.gnrmcM = gnrmcM,
                              !.gnrmcC = gnrmcC,
                              !.cnt = IF store /\ c = "A" THEN (loc.cnt + 1) % Uint8
                                      ELSE loc.cnt,
                              !.gnss_idx = IF store THEN (loc.gnss_idx + 1) % Uint8
                                           ELSE loc.gnss_idx]
        /\ g_gnss_buffer' = IF store THEN GnssStore(g_gnss_buffer, loc.gnss_idx, c)
                            ELSE g_gnss_buffer
        /\ g_gnss_is_data_fixed' =
             IF gnrmcC /\ c = "V" THEN 0
             ELSE IF store /\ c = "A" /\ loc.cnt = FIX_COUNT THEN 1
             ELSE g_gnss_is_data_fixed
        /\ UNCHANGED <<ret, g_sim_buffer, HttpGlobals, gs_gnss_data_time, sim_rx>>

InitScan == InitCommon /\ json_structure = 0

NextScan ==
  \/ gnss_read_data_call
  \/ gnss_read_data_byte

SpecScan == InitScan /\ [][NextScan]_vars

\* the bytes the call has read
Scanned == log[2].r

\* the positions of the bytes 'C' that came after an 'M' that came after an 'R'
Starts(t) ==
  {c \in DOMAIN t :
     /\ t[c] = "C"
     /\ \E r \in DOMAIN t, m \in DOMAIN t :
          r < m /\ m < c /\ t[r] = "R" /\ t[m] = "M"}

\* the bytes of t behind its first such 'C' that are a carriage return or a 'V'
Ends(t) ==
  IF Starts(t) = {} THEN {}
  ELSE {e \in DOMAIN t : e > First(Starts(t)) /\ t[e] \in {CR, "V"}}

\* C33: gnss_read_data returns only after the bytes 'R', 'M', 'C' were received
\* in this order, adjacent or not, and were then followed by a carriage return
\* or a 'V': it has returned exactly when such a byte has been read, which is
\* then the last byte read, and for as long as none arrives it has not returned;
\* the bytes before the 'C' are not buffered.
C33_ReturnsAfterSentence ==
  InCall("gnss_read_data") =>
    /\ pc = "done" <=> Ends(Scanned) # {}
    /\ pc = "done" => Ends(Scanned) = {Len(Scanned)}
    /\ Starts(Scanned) = {} => loc.gnss_idx = 0 /\ g_gnss_buffer = <<>>
    /\ Starts(Scanned) # {} =>
         LET from == First(Starts(Scanned))
             to == IF pc = "done" THEN Len(Scanned) - 1 ELSE Len(Scanned)
         IN  g_gnss_buffer = SubSeq(Scanned, from, to)

\* a call that returned on a carriage return, the bytes of RMC apart from each
\* other
C33_Witness ==
  /\ Done("gnss_read_data")
  /\ Scanned = <<"R", "x", "M", "C", CR>>

---------------------------------------------------------------------------
(* SIM868_http_send_request: its result and its two loops                  *)

\* C34: SIM868_http_send_request returns NO_ERROR only if, within the call, an
\* http_init returned NO_ERROR and an http_start returned NO_ERROR after it, for
\* every max_attempts, 0 included.
C34_NoErrorOnlyAfterSuccess ==
  (Done("SIM868_http_send_request") /\ ret = NO_ERROR) =>
    \E i \in Rets("http_init"), j \in Rets("http_start") :
      i < j /\ log[i].n = NO_ERROR /\ log[j].n = NO_ERROR

\* C35: for every max_attempts >= 1, when http_init succeeded and every attempt
\* of http_start failed, SIM868_http_send_request returns ERROR_HTTP_REQUEST and
\* not the error of the step that failed.
C35_ExhaustedIsRequestError ==
  (Done("SIM868_http_send_request") /\ loc.max_attempts >= 1
     /\ InitSucceeded /\ ~StartSucceeded)
    => ret = ERROR_HTTP_REQUEST

\* lines 1857-1905: the commands of http_init that set a session up
InitPhaseCmds == {InitCommands[k] : k \in 2..7}

\* the positions of the commands of a set
SentAny(cmds) == UNION {Sent(at) : at \in cmds}

\* the http_start entered at position c begins with http_action and its first
\* command (lines 2058, 1935-1966)
StartsWithAction(c) ==
  /\ c < Len(log) => log[c + 1] = Call("http_action")
  /\ c + 1 < Len(log) =>
       /\ log[c + 2].k = "cmd"
       /\ log[c + 2].at = IF loc.method = POST THEN AT_HTTPDATA ELSE AT_HTTPACTION

\* C36: the two retry loops of SIM868_http_send_request are independent and
\* ordered.  http_init succeeds at most once in a call; no command of the Init
\* phase (AT+HTTPINIT, AT+HTTPPARA) is sent after the first command of the
\* Action phase; every attempt of http_start, a retried one included, begins
\* with the commands of http_action and follows the return of the http_init or
\* http_start before it, whether that attempt sent AT+HTTPTERM or not.
C36_LoopsIndependent ==
  InCall("SIM868_http_send_request") =>
    /\ Cardinality({i \in Rets("http_init") : log[i].n = NO_ERROR}) <= 1
    /\ \A i \in SentAny(InitPhaseCmds) \cup Calls("http_init") :
         \A j \in SentAny(ActionPhaseCmds) \cup Calls("http_start") : i < j
    /\ \A c \in Calls("http_start") :
         /\ StartsWithAction(c)
         /\ \/ log[c - 1] = Ret("http_init", NO_ERROR)
            \/ /\ log[c - 1].k = "ret" /\ log[c - 1].at = "http_start"
               /\ log[c - 1].n # NO_ERROR

\* an attempt that failed at its AT+HTTPTERM, and the attempt after it, which has
\* sent AT+HTTPACTION
C36_Witness ==
  /\ InCall("SIM868_http_send_request")
  /\ \E c \in Calls("http_start") :
       /\ log[c - 1] = Ret("http_start", ERROR_REPLY)
       /\ log[c - 2] = Tx("AT+HTTPTERM", 0)
       /\ \E j \in Sent(AT_HTTPACTION) : j > c

---------------------------------------------------------------------------
(* gsm_network_registration: its result                                    *)

\* C37: gsm_network_registration returns NO_ERROR only if at least one poll of
\* the call reported a registered status (1 or 5); when every poll reports
\* SEARCHING or REGISTRATION_DENIED, or no answer can be parsed, the result is
\* an error.
C37_NoErrorOnlyRegistered ==
  (Done("gsm_network_registration") /\ ret = NO_ERROR) =>
    \E i \in Sent("AT+CREG?") : RegisteredAt(i)

---------------------------------------------------------------------------
(* SIM868_set_power_level: the requests that need no pulse                 *)

\* C38: SIM868_set_power_level is a success without effect when the module is in
\* the requested state already: ON requested while the status line reads ON, or
\* OFF requested while it reads OFF, issues no pulse on the power line and
\* returns NO_ERROR; an unknown requested state issues no pulse and returns
\* ERROR_POWER_STATE.
C38_NoOpSuccess ==
  Done("SIM868_set_power_level") =>
    /\ (loc.level \in {ON, OFF} /\ loc.curr_state = loc.level) =>
         Pulses = {} /\ ret = NO_ERROR
    /\ loc.level \notin {ON, OFF, RESET} =>
         Pulses = {} /\ ret = ERROR_POWER_STATE

---------------------------------------------------------------------------
(* g_gnss_buffer between gnss_read_data and SIM868_gnss_get_data           *)

\* line 1094: what strtok reads of g_gnss_buffer, the cells before the first zero
GnssString ==
  SubSeq(g_gnss_buffer, 1, FirstOf(g_gnss_buffer, 1, {NUL}) - 1)

\* C39: after any sequence of calls of SIM868_gnss_get_fix_status the string in
\* g_gnss_buffer, which SIM868_gnss_get_data parses, is the sentence scanned by
\* the last call and nothing more: no byte of an earlier, longer sentence is
\* readable behind it, and the highest index written by the call is below the
\* capacity of 255.
C39_BufferHoldsLastSentence ==
  Done("SIM868_gnss_get_fix_status") =>
    /\ GnssString = GnssBytes
    /\ log[3].n < REPLY_BUFFER_LENGTH

---------------------------------------------------------------------------
(* The ranges of the stored date                                           *)

\* lines 1422-1426: the year as the caller reads it, a uint16_t
SIM868_gnss_get_year == (2000 + gs_gnss_data_time.year) % Uint16

\* C40: for every well-formed date (day 1..31, month 1..12, year 00..99) and
\* time, after SIM868_gnss_get_data the stored day is in 1..31, the stored month
\* in 1..12 and SIM868_gnss_get_year is in 2000..2099: the rollback from
\* 1 January of year 00 does not wrap the year.
C40_DateInRange ==
  DateTaken =>
    /\ gs_gnss_data_time.day \in 1..31
    /\ gs_gnss_data_time.month \in 1..12
    /\ SIM868_gnss_get_year \in 2000..2099

=============================================================================
